---- MODULE Spec2Model ----
(***************************************************************************)
(* Drift-aware retraining pipeline (mlops-azure/drift-detection).          *)
(*                                                                         *)
(* The model follows DriftAwareRetrainingPipeline.run step by step: the    *)
(* three monitors, the combined report, decide_actions, execute_actions,   *)
(* the event log, the Prometheus metrics and the report file.  Time is     *)
(* counted in days; every datetime.now() of the code is a reading of the   *)
(* local wall clock, which may show a later or an earlier day than the     *)
(* reading before it.                                                      *)
(*                                                                         *)
(* Numbers.  Python floats are IEEE 754 doubles, computed bit for bit      *)
(* (see below).  Python dicts are records; dict.get(k, default)            *)
(* is Get(d, k, default).  None and SQL NULL are the empty tuple None; a    *)
(* nullable integer column holds None or the one-element tuple <<v>>.      *)
(* Database tables are bags of rows (row |-> number of copies); a query    *)
(* without ORDER BY reads its rows in any order.                           *)
(***************************************************************************)
EXTENDS Integers, Sequences, FiniteSets, TLC

VARIABLES
    clock,              \* datetime.now(): [day, changes], see datetime_now
    config,             \* self.config: baseline_days and current_days
    exporter,           \* threads calling self.metrics, and what they called
    interaction_log,    \* table interaction_log
    evaluation_log,     \* table evaluation_log
    task_log,           \* table task_log: [exists, rows]
    embeddings_log,     \* table embeddings_log
    embedding_stats,    \* what numpy/sklearn compute over the stored vectors
    docs_pending,       \* rows of documents with last_indexed NULL or stale
    finetune_jobs,      \* fine-tuning jobs started at the provider
    pc,                 \* position of the caller inside run()
    runs,               \* number of calls of run() on the pipeline instance
    start_time,         \* run(): start_time
    embedding_report,   \* run_drift_detection(): embedding_report
    behavior_report,    \* run_drift_detection(): behavior_report
    accuracy_report,    \* run_drift_detection(): accuracy_report
    drift_report,       \* run(): drift_report
    actions,            \* run(): actions
    action_results,     \* execute_actions(): results / run(): action_results
    idx,                \* execute_actions(): position of the for loop
    event_log,          \* self.event_log
    metrics,            \* self.metrics (DriftMetrics gauges and counters)
    files,              \* report files on disk, file name |-> document
    final_report,       \* run(): final_report, the report run() returns
    exception,          \* the call whose exception left run(), or None
    monitors_invoked,   \* monitor calls made by the current run, in order
    dispatched,         \* dispatcher calls made by the current run, in order
    dispatch_failed,    \* actions whose dispatcher raised in the current run
    decisions           \* calls of decide_actions in the current run:
                        \* <<argument, result>>

vars == <<clock, config, exporter, interaction_log, evaluation_log, task_log,
          embeddings_log,
          embedding_stats,
          docs_pending, finetune_jobs, pc, runs, start_time,
          embedding_report, behavior_report, accuracy_report, drift_report,
          actions, action_results, idx, event_log, metrics, files,
          final_report, exception, monitors_invoked, dispatched,
          dispatch_failed, decisions>>

None == <<>>

-----------------------------------------------------------------------------
(* Python floats: IEEE 754 binary64 with round to nearest, ties to even.    *)
(* A float is <<sign, mantissa, exponent>> and stands for                   *)
(* sign * mantissa * 2^exponent: sign is -1, 0 or 1, the mantissa a natural *)
(* number of exactly 53 bits held as four limbs in base 2^14, the least    *)
(* significant first; 0.0 has sign 0.  Every operation computes the exact  *)
(* result on limbs that fit the 32-bit integers of TLC and rounds it once. *)
(* Intermediate values are passed as operator arguments and the limbs are  *)
(* walked by recursion.  Infinities, NaN and subnormal numbers are outside *)
(* the values the monitors compute here.                                   *)

Abs(x) == IF x < 0 THEN -x ELSE x

Base == 16384

\* the limb at position i of a natural number, 0 beyond its length
Limb(w, i) == IF i >= 1 /\ i <= Len(w) THEN w[i] ELSE 0

\* the limb made of the 14 bits of w from bit o upwards; bits below bit 0
\* and beyond the length of w are 0
Extract(w, o) == (Limb(w, (o \div 14) + 1) \div (2 ^ (o % 14))) + (Limb(w, (o \div 14) + 2) % (2 ^ (o % 14))) * (Base \div (2 ^ (o % 14)))

\* w * 2^(-o) cut to n limbs
Shift(w, o, n) == [i \in 1..n |-> Extract(w, o + 14 * (i - 1))]

\* the position of the leading limb of an eight-limb number, 0 for zero
TopLimb(w) ==
    IF w[8] # 0 THEN 8 ELSE IF w[7] # 0 THEN 7 ELSE IF w[6] # 0 THEN 6
    ELSE IF w[5] # 0 THEN 5 ELSE IF w[4] # 0 THEN 4 ELSE IF w[3] # 0 THEN 3
    ELSE IF w[2] # 0 THEN 2 ELSE IF w[1] # 0 THEN 1 ELSE 0

\* the number of bits of a limb
BitLen(n) ==
    IF n >= 128
    THEN (IF n >= 2048
          THEN (IF n >= 8192 THEN 14 ELSE IF n >= 4096 THEN 13 ELSE 12)
          ELSE (IF n >= 1024 THEN 11 ELSE IF n >= 512 THEN 10
                ELSE IF n >= 256 THEN 9 ELSE 8))
    ELSE (IF n >= 8
          THEN (IF n >= 64 THEN 7 ELSE IF n >= 32 THEN 6
                ELSE IF n >= 16 THEN 5 ELSE 4)
          ELSE (IF n >= 4 THEN 3 ELSE IF n >= 2 THEN 2
                ELSE IF n >= 1 THEN 1 ELSE 0))

\* the number of bits of an eight-limb number whose leading limb is at top
Bits(w, top) == IF top = 0 THEN 0 ELSE 14 * (top - 1) + BitLen(w[top])

\* x >= y for four-limb numbers
Ge4(x, y) ==
    IF x[4] # y[4] THEN x[4] > y[4]
    ELSE IF x[3] # y[3] THEN x[3] > y[3]
    ELSE IF x[2] # y[2] THEN x[2] > y[2]
    ELSE x[1] >= y[1]

\* m + 1 for a four-limb number
Inc4(m) ==
    IF m[1] < Base - 1 THEN <<m[1] + 1, m[2], m[3], m[4]>>
    ELSE IF m[2] < Base - 1 THEN <<0, m[2] + 1, m[3], m[4]>>
    ELSE IF m[3] < Base - 1 THEN <<0, 0, m[3] + 1, m[4]>>
    ELSE <<0, 0, 0, m[4] + 1>>

\* 0.0
Zero == <<0, <<0, 0, 0, 0>>, 0>>

\* some bit of w below bit p is set
LowBits(w, p) ==
    /\ p > 0
    /\ \/ \E i \in 1..(p \div 14) : w[i] # 0
       \/ w[(p \div 14) + 1] % (2 ^ (p % 14)) # 0

\* round to nearest, ties to even: g holds the 53 bits kept in its limbs 2
\* to 5 and the 14 bits below them in its limb 1; rest tells whether
\* anything lies further below
RoundEven(sign, g, e, rest) ==
    IF g[1] < 8192 \/ (g[1] = 8192 /\ ~rest /\ g[2] % 2 = 0)
    THEN <<sign, Tail(g), e>>
    ELSE IF Tail(g) = <<Base - 1, Base - 1, Base - 1, 2047>>
    THEN <<sign, <<0, 0, 0, 1024>>, e + 1>>
    ELSE <<sign, Inc4(Tail(g)), e>>

\* Round for a w of sh + 53 bits
RoundAt(sign, w, e, sticky, sh) ==
    RoundEven(sign, Shift(w, sh - 14, 5), e + sh, sticky \/ LowBits(w, sh - 14))

\* the double nearest to sign * (w + t) * 2^e for an eight-limb w and
\* 0 <= t < 1, t > 0 exactly when sticky
Round(sign, w, e, sticky) ==
    IF TopLimb(w) = 0 THEN Zero
    ELSE RoundAt(sign, w, e, sticky, Bits(w, TopLimb(w)) - 53)

\* float(n) of an integer
Float(n) ==
    Round(IF n < 0 THEN -1 ELSE 1, <<Abs(n) % Base, (Abs(n) \div Base) % Base, Abs(n) \div (Base * Base), 0, 0, 0, 0, 0>>, 0, FALSE)

\* the limbs from position i of x + s * y + carry * Base^(i-1) for
\* eight-limb x and y, s = 1 or -1
RECURSIVE AddSubFrom(_, _, _, _, _)
AddSubFrom(x, y, s, i, carry) ==
    IF i > 8 THEN <<>>
    ELSE <<(x[i] + s * y[i] + carry) % Base>> \o AddSubFrom(x, y, s, i + 1, (x[i] + s * y[i] + carry) \div Base)

\* x + s * y for eight-limb x and y, s = 1 or -1, the result being a
\* natural number below Base^8
AddSub8(x, y, s) == AddSubFrom(x, y, s, 1, 0)

\* the limbs from position i of r - k * d + carry * Base^(i-1) for a
\* five-limb r and a four-limb d
RECURSIVE MulSubFrom(_, _, _, _, _)
MulSubFrom(r, d, k, i, carry) ==
    IF i = 5 THEN <<r[5] + carry>>
    ELSE <<(r[i] - k * d[i] + carry) % Base>> \o MulSubFrom(r, d, k, i + 1, (r[i] - k * d[i] + carry) \div Base)

\* r - k * d for a five-limb r and a four-limb d, the result being a
\* natural number below Base^5
MulSub(r, d, k) == MulSubFrom(r, d, k, 1, 0)

\* <<q + j, r - j * d>> for the largest j <= n with j * d <= r
RECURSIVE Fix(_, _, _)
Fix(qr, d, n) ==
    IF n > 0 /\ (qr[2][5] > 0 \/ Ge4(qr[2], d))
    THEN Fix(<<qr[1] + 1, MulSub(qr[2], d, 1)>>, d, n - 1)
    ELSE qr

\* DivStep with the guess est of the digit, which is at most 3 below it
DivGuess(rem, d, est) ==
    Fix(<<est, MulSub(<<0, rem[1], rem[2], rem[3], rem[4]>>, d, est)>>, d, 3)

\* one digit of the long division by d, whose leading limb is at least
\* Base / 2: <<q, r>> with rem * Base = q * d + r and r < d, for rem < d
DivStep(rem, d) ==
    DivGuess(rem, d, IF (rem[4] * Base + rem[3]) \div (d[4] + 1) > Base - 1 THEN Base - 1 ELSE (rem[4] * Base + rem[3]) \div (d[4] + 1))

\* k more digits of the long division by d after the step that gave qr:
\* <<the digits, lowest first, the remainder>>
RECURSIVE LongDiv(_, _, _, _)
LongDiv(qr, d, k, digits) ==
    IF k = 0 THEN <<<<qr[1]>> \o digits, qr[2]>>
    ELSE LongDiv(DivStep(qr[2], d), d, k - 1, <<qr[1]>> \o digits)

\* -1, 0, 1 as |a| is below, equal to, above |b|, neither being 0.0
MagCmp(a, b) ==
    IF a[3] # b[3] THEN (IF a[3] < b[3] THEN -1 ELSE 1)
    ELSE IF a[2] = b[2] THEN 0
    ELSE IF Ge4(a[2], b[2]) THEN 1 ELSE -1

\* the quotient of the significands n and d, both with the leading limb at
\* least Base / 2: five digits and the remainder
Quotient(n, d) == LongDiv(Fix(<<0, n \o <<0>>>>, d, 1), d, 4, <<>>)

\* the double of sign * (n / d) * 2^e
RoundQuotient(sign, qr, e) ==
    Round(sign, qr[1] \o <<0, 0, 0>>, e, qr[2] # <<0, 0, 0, 0, 0>>)

\* a / b for b # 0.0
RDiv(a, b) ==
    IF a[1] = 0 \/ b[1] = 0 THEN Zero
    ELSE RoundQuotient(a[1] * b[1], Quotient(Shift(a[2], -3, 4), Shift(b[2], -3, 4)), a[3] - b[3] - 56)

\* the double of the literal or true division n / d of two integers
R(n, d) == RDiv(Float(n), Float(d))

\* 1.0
One == <<1, <<0, 0, 0, 1024>>, -52>>

\* -a
RNeg(a) == <<-a[1], a[2], a[3]>>

\* abs(a)
RAbs(a) == <<Abs(a[1]), a[2], a[3]>>

\* big + small for |big| >= |small| > 0: beyond 58 binary places the
\* smaller term is below the rounding of the larger
AddOrdered(big, small) ==
    IF big[3] - small[3] > 58 THEN big
    ELSE Round(big[1], AddSub8(Shift(big[2], small[3] - big[3], 8), small[2] \o <<0, 0, 0, 0>>, big[1] * small[1]), small[3], FALSE)

\* a + b
RAdd(a, b) ==
    IF a[1] = 0 THEN b
    ELSE IF b[1] = 0 THEN a
    ELSE AddOrdered(IF MagCmp(a, b) >= 0 THEN a ELSE b, IF MagCmp(a, b) >= 0 THEN b ELSE a)

\* a - b
RSub(a, b) == RAdd(a, RNeg(b))

\* the sum of the products x[i] * y[j] with i + j = k + 1
Term(x, y, k) == Limb(x, 1) * Limb(y, k) + Limb(x, 2) * Limb(y, k - 1) + Limb(x, 3) * Limb(y, k - 2) + Limb(x, 4) * Limb(y, k - 3)

\* the limbs from position k of x * y for four-limb x and y, carry being
\* what the lower positions carry over
RECURSIVE MulFrom(_, _, _, _)
MulFrom(x, y, k, carry) ==
    IF k = 8 THEN <<carry>>
    ELSE <<(Term(x, y, k) + carry) % Base>> \o MulFrom(x, y, k + 1, (Term(x, y, k) + carry) \div Base)

\* a * b
RMul(a, b) ==
    IF a[1] = 0 \/ b[1] = 0 THEN Zero
    ELSE Round(a[1] * b[1], MulFrom(a[2], b[2], 1, 0), a[3] + b[3], FALSE)

\* a < b
RLt(a, b) ==
    IF a[1] # b[1] THEN a[1] < b[1]
    ELSE a[1] # 0 /\ a[1] * MagCmp(a, b) < 0

\* a > b
RGt(a, b) == RLt(b, a)

\* a <= b
RLe(a, b) == ~RLt(b, a)

\* max(a, b) and min(a, b) of Python: the first argument unless the second
\* is strictly beyond it
RMax2(a, b) == IF RLt(a, b) THEN b ELSE a
RMin2(a, b) == IF RLt(b, a) THEN b ELSE a

\* max(s) of a non-empty list
RECURSIVE RMaxSeq(_)
RMaxSeq(s) == IF Len(s) = 1 THEN s[1] ELSE RMax2(RMaxSeq(SubSeq(s, 1, Len(s) - 1)), s[Len(s)])

\* the sum of a list, accumulated from the left
RECURSIVE RSumSeq(_)
RSumSeq(s) == IF s = <<>> THEN Zero ELSE RAdd(RSumSeq(SubSeq(s, 1, Len(s) - 1)), s[Len(s)])

\* np.mean of a non-empty list
RMean(s) == RDiv(RSumSeq(s), Float(Len(s)))

\* np.clip(x, lo, hi)
RClip(x, lo, hi) == RMin2(RMax2(x, lo), hi)

\* a * 2^k
Scale(a, k) == <<a[1], a[2], a[3] + k>>

\* the literal 1e-10, which is 2^-10 / 5^10
OneEMinus10 == Scale(R(1, 9765625), -10)

\* Python truthiness of an optional number: None and 0 are false
Truthy(x) == x # None /\ x[1] # 0

\* dict.get(key, default)
Get(d, k, default) == IF k \in DOMAIN d THEN d[k] ELSE default

\* The object stored under 'drift_detected' or 'overall_drift_detected' is a
\* Python bool or a numpy.bool_, the result of comparing numpy scalars; it
\* is held as [class, value].  The two behave alike under if, or and ==,
\* but json.dump encodes only the first.
bool(b) == [class |-> "bool", value |-> b]
numpy_bool(b) == [class |-> "numpy.bool_", value |-> b]

\* the literals False and True
False == bool(FALSE)
True == bool(TRUE)

\* x or y: x when x is true, otherwise y
or(x, y) == IF x.value THEN x ELSE y

-----------------------------------------------------------------------------
(* Tables as bags: SQL aggregates.                                          *)

RECURSIVE SumF(_, _)
SumF(f, S) ==
    IF S = {} THEN 0
    ELSE LET x == CHOOSE y \in S : TRUE IN f[x] + SumF(f, S \ {x})

\* rows of a table with start <= timestamp <= end
RowsInClosed(table, start, end) ==
    {r \in DOMAIN table : r.timestamp >= start /\ r.timestamp <= end}

\* rows of a table with start <= timestamp < end (the WHERE clause)
RowsIn(table, start, end) ==
    {r \in DOMAIN table : r.timestamp >= start /\ r.timestamp < end}

\* COUNT(*) over a set of rows of the table
Count(table, rows) == SumF(table, rows)

\* SUM(expr) over a set of rows, expr given as a function of the row
Sum(table, rows, f) == SumF([r \in rows |-> table[r] * f[r]], rows)

\* a bag from a set of <<row, copies>> pairs; pairs with 0 copies are dropped
Bag(pairs) ==
    LET rows == {p[1] : p \in {q \in pairs : q[2] > 0}}
    IN  [r \in rows |-> SumF([p \in {q \in pairs : q[1] = r} |-> p[2]],
                             {q \in pairs : q[1] = r})]

-----------------------------------------------------------------------------
(* Configuration: config.get(...) defaults and the monitors' thresholds.    *)

baseline_days == 30
current_days == 7

refusal_threshold == R(10, 100)
toxicity_threshold == R(5, 100)
error_threshold == R(10, 100)
length_threshold == R(5, 10)
accuracy_threshold == R(5, 100)
feedback_threshold == R(3, 10)
distance_threshold == R(15, 100)
silhouette_threshold == R(2, 10)
variance_threshold == R(3, 10)
psi_threshold == R(2, 10)
n_clusters == 5

\* the two windows every monitor derives from its own reading of the clock
Windows(t) ==
    [current_end |-> t,
     current_start |-> t - config.current_days,
     baseline_end |-> t - config.current_days,
     baseline_start |-> (t - config.current_days) - config.baseline_days]

-----------------------------------------------------------------------------
(* BehaviorMetricsMonitor (monitors/behavior_metrics.py).                  *)
(* A row of interaction_log: [timestamp, refusal_flag, toxicity_flag,      *)
(* error_flag, response_length (<<LENGTH(model_response)>> or None),       *)
(* user_feedback_score (<<score>> or None)].                               *)

\* get_interaction_metrics without the lower bound of the WHERE clause
get_interaction_metrics_upto(start_date, end_date) ==
    LET rows == {r \in DOMAIN interaction_log : r.timestamp < end_date}
        total_interactions == Count(interaction_log, rows)
        refusal_count == Count(interaction_log, {r \in rows : r.refusal_flag})
        toxicity_count == Count(interaction_log, {r \in rows : r.toxicity_flag})
        error_count == Count(interaction_log, {r \in rows : r.error_flag})
        responses == {r \in rows : r.response_length # None}
        n_responses == Count(interaction_log, responses)
        avg_response_length ==
            IF n_responses = 0 THEN Zero
            ELSE R(Sum(interaction_log, responses,
                       [r \in responses |-> r.response_length[1]]), n_responses)
    IN  IF total_interactions = 0
        THEN [total_interactions |-> 0,
              refusal_rate |-> Zero,
              toxicity_rate |-> Zero,
              error_rate |-> Zero,
              avg_response_length |-> Zero]
        ELSE [total_interactions |-> total_interactions,
              refusal_count |-> refusal_count,
              refusal_rate |-> R(refusal_count, total_interactions),
              toxicity_count |-> toxicity_count,
              toxicity_rate |-> R(toxicity_count, total_interactions),
              error_count |-> error_count,
              error_rate |-> R(error_count, total_interactions),
              avg_response_length |-> avg_response_length]

\* get_interaction_metrics: the counts and rates of one window
get_interaction_metrics(start_date, end_date) ==
    LET rows == RowsIn(interaction_log, start_date, end_date)
        total_interactions == Count(interaction_log, rows)
        refusal_count == Count(interaction_log, {r \in rows : r.refusal_flag})
        toxicity_count == Count(interaction_log, {r \in rows : r.toxicity_flag})
        error_count == Count(interaction_log, {r \in rows : r.error_flag})
        responses == {r \in rows : r.response_length # None}
        n_responses == Count(interaction_log, responses)
        avg_response_length ==
            IF n_responses = 0 THEN Zero
            ELSE R(Sum(interaction_log, responses,
                       [r \in responses |-> r.response_length[1]]), n_responses)
    IN  IF total_interactions = 0
        THEN [total_interactions |-> 0,
              refusal_rate |-> Zero,
              toxicity_rate |-> Zero,
              error_rate |-> Zero,
              avg_response_length |-> Zero]
        ELSE [total_interactions |-> total_interactions,
              refusal_count |-> refusal_count,
              refusal_rate |-> R(refusal_count, total_interactions),
              toxicity_count |-> toxicity_count,
              toxicity_rate |-> R(toxicity_count, total_interactions),
              error_count |-> error_count,
              error_rate |-> R(error_count, total_interactions),
              avg_response_length |-> avg_response_length]

\* drift_score of detect_behavior_drift: min(float(max(...)), 1.0)
behavior_drift_score(current_metrics, length_change_pct) ==
    RMin2(RMaxSeq(<<
              IF RGt(refusal_threshold, Zero)
              THEN RDiv(current_metrics.refusal_rate, refusal_threshold)
              ELSE Zero,
              IF RGt(toxicity_threshold, Zero)
              THEN RDiv(current_metrics.toxicity_rate, toxicity_threshold)
              ELSE Zero,
              RDiv(current_metrics.error_rate, error_threshold),
              RDiv(length_change_pct, length_threshold)>>),
          One)

\* detect_behavior_drift with datetime.now() = t
detect_behavior_drift(t) ==
    LET w == Windows(t)
        baseline_metrics ==
            get_interaction_metrics(w.baseline_start, w.baseline_end)
        current_metrics ==
            get_interaction_metrics(w.current_start, w.current_end)
        refusal_change ==
            RSub(current_metrics.refusal_rate, baseline_metrics.refusal_rate)
        toxicity_change ==
            RSub(current_metrics.toxicity_rate, baseline_metrics.toxicity_rate)
        error_change ==
            RSub(current_metrics.error_rate, baseline_metrics.error_rate)
        refusal_drift == RGt(current_metrics.refusal_rate, refusal_threshold)
        toxicity_drift == RGt(current_metrics.toxicity_rate, toxicity_threshold)
        error_drift == RGt(current_metrics.error_rate, error_threshold)
        length_change_pct ==
            IF RGt(baseline_metrics.avg_response_length, Zero)
            THEN RDiv(RAbs(RSub(current_metrics.avg_response_length,
                                baseline_metrics.avg_response_length)),
                      baseline_metrics.avg_response_length)
            ELSE Zero
        length_anomaly == RGt(length_change_pct, length_threshold)
        drift_detected ==
            refusal_drift \/ toxicity_drift \/ error_drift \/ length_anomaly
    IN  IF baseline_metrics.total_interactions = 0
           \/ current_metrics.total_interactions = 0
        THEN [timestamp |-> t,
              error |-> "Insufficient data for behavior drift detection",
              baseline_interactions |-> baseline_metrics.total_interactions,
              current_interactions |-> current_metrics.total_interactions]
        ELSE [timestamp |-> t,
              drift_detected |-> bool(drift_detected),
              drift_score |->
                  behavior_drift_score(current_metrics, length_change_pct),
              baseline_period |->
                  [start |-> w.baseline_start, end |-> w.baseline_end,
                   metrics |-> baseline_metrics],
              current_period |->
                  [start |-> w.current_start, end |-> w.current_end,
                   metrics |-> current_metrics],
              changes |->
                  [refusal_rate_change |-> refusal_change,
                   refusal_drift_detected |-> refusal_drift,
                   toxicity_rate_change |-> toxicity_change,
                   toxicity_drift_detected |-> toxicity_drift,
                   error_rate_change |-> error_change,
                   error_drift_detected |-> error_drift,
                   response_length_change_pct |->
                       RMul(length_change_pct, Float(100)),
                   length_anomaly_detected |-> length_anomaly],
              thresholds |->
                  [refusal_rate |-> refusal_threshold,
                   toxicity_rate |-> toxicity_threshold,
                   error_rate |-> error_threshold]]

-----------------------------------------------------------------------------
(* AccuracyMonitor (monitors/accuracy_monitor.py).                         *)
(* A row of evaluation_log: [timestamp, accuracy, precision, recall,       *)
(* f1_score], the four doubles.  A row of task_log: [timestamp,            *)
(* success_flag]; task_log.exists is false when the table is not defined   *)
(* (psycopg2.errors.UndefinedTable).                                       *)

\* float(x) if x else None
FloatOrNone(x) == IF Truthy(x) THEN x ELSE None

\* the sequences of column values in which a scan of evaluation_log can
\* deliver the rows of the window, each row as many times as the table holds
\* it: the query has no ORDER BY, the engine is free to read the rows in any
\* order
ScanOrders(start_date, end_date) ==
    LET rows == RowsIn(evaluation_log, start_date, end_date)
        Columns(r) ==
            [accuracy |-> r.accuracy, precision |-> r.precision,
             recall |-> r.recall, f1_score |-> r.f1_score]
        values == {Columns(r) : r \in rows}
    IN  {order \in [1..Count(evaluation_log, rows) -> values] :
             \A v \in values :
                 Cardinality({i \in DOMAIN order : order[i] = v})
                     = Count(evaluation_log, {r \in rows : Columns(r) = v})}

\* the sum AVG(column) accumulates over the first n rows the scan delivers,
\* row after row
RECURSIVE SumColumn(_, _, _)
SumColumn(order, column, n) ==
    IF n = 0 THEN Zero
    ELSE RAdd(SumColumn(order, column, n - 1), order[n][column])

\* AVG(column) over rows of a double precision column: the sum accumulated
\* in the order the scan delivers the rows, divided by the number of rows
Avg(order, column) ==
    RDiv(SumColumn(order, column, Len(order)), Float(Len(order)))

\* get_evaluation_metrics when the scan delivers the rows of the window in
\* the given order: the four averages come from one SELECT, one scan
get_evaluation_metrics(start_date, end_date, order) ==
    LET rows == RowsIn(evaluation_log, start_date, end_date)
        n == Count(evaluation_log, rows)
    IN  IF n = 0
        THEN [avg_accuracy |-> None, avg_precision |-> None,
              avg_recall |-> None, avg_f1 |-> None, evaluation_count |-> 0]
        ELSE [avg_accuracy |->
                  FloatOrNone(Avg(order, "accuracy")),
              avg_precision |->
                  FloatOrNone(Avg(order, "precision")),
              avg_recall |->
                  FloatOrNone(Avg(order, "recall")),
              avg_f1 |->
                  FloatOrNone(Avg(order, "f1_score")),
              evaluation_count |-> n]

get_user_feedback_metrics(start_date, end_date) ==
    LET rows == {r \in RowsIn(interaction_log, start_date, end_date) :
                     r.user_feedback_score # None}
        n == Count(interaction_log, rows)
        positive == Count(interaction_log,
                          {r \in rows : r.user_feedback_score[1] >= 4})
        negative == Count(interaction_log,
                          {r \in rows : r.user_feedback_score[1] <= 2})
    IN  IF n = 0
        THEN [avg_rating |-> None, feedback_count |-> 0,
              positive_rate |-> Zero, negative_rate |-> Zero]
        ELSE [avg_rating |->
                  FloatOrNone(R(Sum(interaction_log, rows,
                                    [r \in rows |-> r.user_feedback_score[1]]),
                                n)),
              feedback_count |-> n,
              positive_count |-> positive,
              negative_count |-> negative,
              positive_rate |-> R(positive, n),
              negative_rate |-> R(negative, n)]

get_task_success_metrics(start_date, end_date) ==
    IF ~task_log.exists
    THEN [total_tasks |-> 0, success_rate |-> None]
    ELSE LET rows == RowsIn(task_log.rows, start_date, end_date)
             n == Count(task_log.rows, rows)
             ok == Count(task_log.rows, {r \in rows : r.success_flag})
         IN  IF n = 0
             THEN [total_tasks |-> 0, success_rate |-> None]
             ELSE [total_tasks |-> n, successful_tasks |-> ok,
                   success_rate |-> R(ok, n)]

\* drift_score of detect_accuracy_drift: min(float(drift_score), 1.0)
accuracy_drift_score(accuracy_drop, feedback_drop, task_success_drop) ==
    LET drift_components ==
            (IF accuracy_drop # None
             THEN <<RDiv(accuracy_drop, accuracy_threshold)>> ELSE <<>>)
            \o (IF feedback_drop # None
                THEN <<RDiv(feedback_drop, feedback_threshold)>> ELSE <<>>)
            \o (IF task_success_drop # None
                THEN <<RDiv(task_success_drop, accuracy_threshold)>> ELSE <<>>)
        drift_score ==
            IF drift_components # <<>> THEN RMaxSeq(drift_components) ELSE Zero
    IN  RMin2(drift_score, One)

\* detect_accuracy_drift with datetime.now() = t, the two queries on
\* evaluation_log reading their rows in the orders baseline_order and
\* current_order
detect_accuracy_drift(t, baseline_order, current_order) ==
    LET w == Windows(t)
        baseline_eval ==
            get_evaluation_metrics(w.baseline_start, w.baseline_end,
                                   baseline_order)
        current_eval ==
            get_evaluation_metrics(w.current_start, w.current_end,
                                   current_order)
        baseline_feedback ==
            get_user_feedback_metrics(w.baseline_start, w.baseline_end)
        current_feedback ==
            get_user_feedback_metrics(w.current_start, w.current_end)
        baseline_tasks ==
            get_task_success_metrics(w.baseline_start, w.baseline_end)
        current_tasks ==
            get_task_success_metrics(w.current_start, w.current_end)
        has_accuracy ==
            Truthy(baseline_eval.avg_accuracy) /\ Truthy(current_eval.avg_accuracy)
        accuracy_drop ==
            IF has_accuracy
            THEN RSub(baseline_eval.avg_accuracy, current_eval.avg_accuracy)
            ELSE None
        accuracy_drift ==
            has_accuracy /\ RGt(accuracy_drop, accuracy_threshold)
        has_feedback ==
            Truthy(baseline_feedback.avg_rating)
            /\ Truthy(current_feedback.avg_rating)
        feedback_drop ==
            IF has_feedback
            THEN RDiv(RSub(baseline_feedback.avg_rating,
                           current_feedback.avg_rating),
                      baseline_feedback.avg_rating)
            ELSE None
        feedback_drift ==
            has_feedback /\ RGt(feedback_drop, feedback_threshold)
        has_tasks ==
            Truthy(baseline_tasks.success_rate)
            /\ Truthy(current_tasks.success_rate)
        task_success_drop ==
            IF has_tasks
            THEN RSub(baseline_tasks.success_rate, current_tasks.success_rate)
            ELSE None
        task_drift ==
            has_tasks /\ RGt(task_success_drop, accuracy_threshold)
        drift_detected == accuracy_drift \/ feedback_drift \/ task_drift
    IN  [timestamp |-> t,
         drift_detected |-> bool(drift_detected),
         drift_score |->
             accuracy_drift_score(accuracy_drop, feedback_drop,
                                  task_success_drop),
         baseline_period |->
             [start |-> w.baseline_start, end |-> w.baseline_end,
              evaluation_metrics |-> baseline_eval,
              feedback_metrics |-> baseline_feedback,
              task_metrics |-> baseline_tasks],
         current_period |->
             [start |-> w.current_start, end |-> w.current_end,
              evaluation_metrics |-> current_eval,
              feedback_metrics |-> current_feedback,
              task_metrics |-> current_tasks],
         changes |->
             [accuracy_drop |-> FloatOrNone(accuracy_drop),
              accuracy_drift_detected |-> accuracy_drift,
              feedback_drop_pct |->
                  IF Truthy(feedback_drop)
                  THEN RMul(feedback_drop, Float(100)) ELSE None,
              feedback_drift_detected |-> feedback_drift,
              task_success_drop |-> FloatOrNone(task_success_drop),
              task_drift_detected |-> task_drift],
         thresholds |->
             [accuracy_threshold |-> accuracy_threshold,
              feedback_threshold |-> feedback_threshold]]

-----------------------------------------------------------------------------
(* EmbeddingDriftDetector (monitors/embedding_drift.py).                   *)
(* A row of embeddings_log: [timestamp, type, vector], the vector an       *)
(* opaque identifier.  The numeric routines (numpy, scipy, scikit-learn)   *)
(* are outside the repository: embedding_stats holds what they return for  *)
(* the stored vectors: [euclidean_dist, cosine_dist, baseline_var,         *)
(* current_var, baseline_silhouette, current_silhouette,                   *)
(* avg_centroid_shift, psi], each a float.                                  *)

\* len(get_embeddings(start_date, end_date, embedding_type))
get_embeddings(start_date, end_date, embedding_type) ==
    LET rows == {r \in RowsIn(embeddings_log, start_date, end_date) :
                     embedding_type = "all" \/ r.type = embedding_type}
    IN  Count(embeddings_log, rows)

compute_centroid_distance(n_baseline, n_current, st) ==
    IF n_baseline = 0 \/ n_current = 0
    THEN [euclidean |-> Zero, cosine |-> Zero, drift_detected |-> False]
    ELSE [euclidean_distance |-> st.euclidean_dist,
          cosine_distance |-> st.cosine_dist,
          drift_detected |->
              or(numpy_bool(RGt(st.euclidean_dist, distance_threshold)),
                 numpy_bool(RGt(st.cosine_dist, distance_threshold))),
          threshold |-> distance_threshold]

compute_variance_change(n_baseline, n_current, st) ==
    IF n_baseline = 0 \/ n_current = 0
    THEN [variance_change |-> Zero, drift_detected |-> False]
    ELSE LET variance_change ==
                 RDiv(RAbs(RSub(st.current_var, st.baseline_var)),
                      RAdd(st.baseline_var, OneEMinus10))
         IN  [baseline_variance |-> st.baseline_var,
              current_variance |-> st.current_var,
              variance_change_pct |-> RMul(variance_change, Float(100)),
              drift_detected |->
                  numpy_bool(RGt(variance_change, variance_threshold)),
              threshold |-> variance_threshold]

compute_cluster_drift(n_baseline, n_current, st) ==
    IF n_baseline < n_clusters \/ n_current < n_clusters
    THEN [drift_detected |-> False, reason |-> "insufficient_samples"]
    ELSE LET silhouette_change ==
                 RSub(st.baseline_silhouette, st.current_silhouette)
             drift_detected ==
                 or(numpy_bool(RGt(silhouette_change, silhouette_threshold)),
                    numpy_bool(RGt(st.avg_centroid_shift,
                                   distance_threshold)))
         IN  [baseline_silhouette |-> st.baseline_silhouette,
              current_silhouette |-> st.current_silhouette,
              silhouette_change |-> silhouette_change,
              avg_centroid_shift |-> st.avg_centroid_shift,
              n_clusters |-> n_clusters,
              drift_detected |-> drift_detected,
              drift_reason |->
                  IF drift_detected.value THEN "cluster_structure_changed"
                  ELSE None]

compute_population_stability_index(n_baseline, n_current, st) ==
    IF n_baseline = 0 \/ n_current = 0
    THEN [psi |-> Zero, drift_detected |-> False]
    ELSE [psi |-> st.psi,
          drift_level |->
              IF RGt(st.psi, psi_threshold) THEN "high"
              ELSE IF RGt(st.psi, R(1, 10)) THEN "moderate" ELSE "low",
          drift_detected |-> numpy_bool(RGt(st.psi, psi_threshold))]

\* drift_score of detect_drift: float(np.clip(np.mean([...]), 0, 1))
embedding_drift_score(centroid_results, variance_results, cluster_results, psi_results) ==
    RClip(RMean(<<
              RDiv(Get(centroid_results, "euclidean_distance", Zero),
                   distance_threshold),
              RDiv(Get(variance_results, "variance_change_pct", Zero),
                   Float(100)),
              RDiv(Get(cluster_results, "silhouette_change", Zero),
                   silhouette_threshold),
              RDiv(Get(psi_results, "psi", Zero), psi_threshold)>>),
          Zero, One)

\* detect_drift with the verdict of the PSI method left out of the overall
\* decision
detect_drift_nopsi(t, embedding_type) ==
    LET w == Windows(t)
        n_baseline ==
            get_embeddings(w.baseline_start, w.baseline_end, embedding_type)
        n_current ==
            get_embeddings(w.current_start, w.current_end, embedding_type)
        st == embedding_stats
        centroid_results == compute_centroid_distance(n_baseline, n_current, st)
        variance_results == compute_variance_change(n_baseline, n_current, st)
        cluster_results == compute_cluster_drift(n_baseline, n_current, st)
        psi_results ==
            compute_population_stability_index(n_baseline, n_current, st)
        drift_detected ==
            or(Get(centroid_results, "drift_detected", False),
               or(Get(variance_results, "drift_detected", False),
                  Get(cluster_results, "drift_detected", False)))
    IN  IF n_baseline = 0 \/ n_current = 0
        THEN [timestamp |-> t,
              error |-> "Insufficient data for drift detection",
              baseline_count |-> n_baseline,
              current_count |-> n_current]
        ELSE [timestamp |-> t,
              embedding_type |-> embedding_type,
              baseline_period |->
                  [start |-> w.baseline_start, end |-> w.baseline_end,
                   sample_count |-> n_baseline],
              current_period |->
                  [start |-> w.current_start, end |-> w.current_end,
                   sample_count |-> n_current],
              drift_detected |-> drift_detected,
              drift_score |->
                  embedding_drift_score(centroid_results, variance_results,
                                        cluster_results, psi_results),
              methods |->
                  [centroid_distance |-> centroid_results,
                   variance_change |-> variance_results,
                   cluster_analysis |-> cluster_results,
                   population_stability_index |-> psi_results]]

\* detect_drift with datetime.now() = t
detect_drift(t, embedding_type) ==
    LET w == Windows(t)
        n_baseline ==
            get_embeddings(w.baseline_start, w.baseline_end, embedding_type)
        n_current ==
            get_embeddings(w.current_start, w.current_end, embedding_type)
        st == embedding_stats
        centroid_results == compute_centroid_distance(n_baseline, n_current, st)
        variance_results == compute_variance_change(n_baseline, n_current, st)
        cluster_results == compute_cluster_drift(n_baseline, n_current, st)
        psi_results ==
            compute_population_stability_index(n_baseline, n_current, st)
        drift_detected ==
            or(Get(centroid_results, "drift_detected", False),
               or(Get(variance_results, "drift_detected", False),
                  or(Get(cluster_results, "drift_detected", False),
                     Get(psi_results, "drift_detected", False))))
    IN  IF n_baseline = 0 \/ n_current = 0
        THEN [timestamp |-> t,
              error |-> "Insufficient data for drift detection",
              baseline_count |-> n_baseline,
              current_count |-> n_current]
        ELSE [timestamp |-> t,
              embedding_type |-> embedding_type,
              baseline_period |->
                  [start |-> w.baseline_start, end |-> w.baseline_end,
                   sample_count |-> n_baseline],
              current_period |->
                  [start |-> w.current_start, end |-> w.current_end,
                   sample_count |-> n_current],
              drift_detected |-> drift_detected,
              drift_score |->
                  embedding_drift_score(centroid_results, variance_results,
                                        cluster_results, psi_results),
              methods |->
                  [centroid_distance |-> centroid_results,
                   variance_change |-> variance_results,
                   cluster_analysis |-> cluster_results,
                   population_stability_index |-> psi_results]]

-----------------------------------------------------------------------------
(* DriftMetrics (metrics/prometheus_metrics.py).                           *)

\* DriftMetrics.__init__: gauges and counters start at 0
InitialMetrics ==
    [embedding_drift_score |-> Zero,
     behavior_drift_score |-> Zero,
     accuracy_drift_score |-> Zero,
     overall_drift_score |-> Zero,
     model_accuracy |-> Zero,
     refusal_rate |-> Zero,
     toxicity_rate |-> Zero,
     retrain_events_total |-> 0,
     reindex_events_total |-> 0,
     api_cost_usd |-> Zero]

\* increment_retrain_events incrementing the re-indexing counter instead
increment_retrain_events_reindex(m) ==
    [m EXCEPT !.reindex_events_total = @ + 1]

increment_retrain_events(m) ==
    [m EXCEPT !.retrain_events_total = @ + 1]

increment_reindex_events(m) ==
    [m EXCEPT !.reindex_events_total = @ + 1]

update_cost(m, cost) ==
    [m EXCEPT !.api_cost_usd = cost]

\* Gauge.set(v)
set(m, gauge, v) == [m EXCEPT ![gauge] = v]

\* the Gauge.set calls update_drift_metrics makes for a report, in order
GaugeWrites(report) ==
    LET behavior ==
            Get(Get(Get(report, "behavior_drift", None),
                    "current_period", None), "metrics", None)
        accuracy ==
            Get(Get(Get(report, "accuracy_drift", None),
                    "current_period", None), "evaluation_metrics", None)
    IN  <<<<"embedding_drift_score",
            Get(Get(report, "embedding_drift", None), "drift_score", Zero)>>,
          <<"behavior_drift_score",
            Get(Get(report, "behavior_drift", None), "drift_score", Zero)>>,
          <<"accuracy_drift_score",
            Get(Get(report, "accuracy_drift", None), "drift_score", Zero)>>,
          <<"overall_drift_score",
            Get(report, "overall_drift_score", Zero)>>>>
        \o (IF behavior # None
            THEN <<<<"refusal_rate", Get(behavior, "refusal_rate", Zero)>>,
                   <<"toxicity_rate", Get(behavior, "toxicity_rate", Zero)>>>>
            ELSE <<>>)
        \o (IF accuracy # None /\ Truthy(Get(accuracy, "avg_accuracy", None))
            THEN <<<<"model_accuracy", accuracy.avg_accuracy>>>>
            ELSE <<>>)

-----------------------------------------------------------------------------
(* DriftAwareRetrainingPipeline (pipeline/drift_pipeline.py).              *)

Monitors == {"embedding", "behavior", "accuracy"}
Actions == {"reindex_documents", "fine_tune_model", "update_safety_filters"}

Range(s) == {s[i] : i \in DOMAIN s}

\* a combined report that forgets the accuracy monitor
combined_report_two(t, emb, beh, acc) ==
    [timestamp |-> t,
     embedding_drift |-> emb,
     behavior_drift |-> beh,
     accuracy_drift |-> acc,
     overall_drift_detected |->
         or(Get(emb, "drift_detected", False),
            Get(beh, "drift_detected", False)),
     overall_drift_score |->
         RMaxSeq(<<Get(emb, "drift_score", Zero),
                   Get(beh, "drift_score", Zero)>>)]

\* a combined report that takes a report without a verdict for drift
combined_report_nodata(t, emb, beh, acc) ==
    [timestamp |-> t,
     embedding_drift |-> emb,
     behavior_drift |-> beh,
     accuracy_drift |-> acc,
     overall_drift_detected |->
         or(Get(emb, "drift_detected", True),
            or(Get(beh, "drift_detected", True),
               Get(acc, "drift_detected", True))),
     overall_drift_score |->
         RMaxSeq(<<Get(emb, "drift_score", One),
                   Get(beh, "drift_score", One),
                   Get(acc, "drift_score", One)>>)]

\* run_drift_detection, lines 131-147: the combined report
combined_report(t, emb, beh, acc) ==
    [timestamp |-> t,
     embedding_drift |-> emb,
     behavior_drift |-> beh,
     accuracy_drift |-> acc,
     overall_drift_detected |->
         or(Get(emb, "drift_detected", False),
            or(Get(beh, "drift_detected", False),
               Get(acc, "drift_detected", False))),
     overall_drift_score |->
         RMaxSeq(<<Get(emb, "drift_score", Zero),
                   Get(beh, "drift_score", Zero),
                   Get(acc, "drift_score", Zero)>>)]

\* decide_actions without the 'not in actions' test of line 182
decide_actions_nodedup(report) ==
    LET a1 == IF Get(report.embedding_drift, "drift_detected", False).value
              THEN <<"reindex_documents">> ELSE <<>>
        behavior_changes == Get(report.behavior_drift, "changes", None)
        a2 == IF Get(report.behavior_drift, "drift_detected", False).value
                 /\ Get(behavior_changes, "refusal_drift_detected", FALSE)
              THEN Append(a1, "fine_tune_model") ELSE a1
        a3 == IF Get(report.behavior_drift, "drift_detected", False).value
                 /\ Get(behavior_changes, "toxicity_drift_detected", FALSE)
              THEN Append(a2, "update_safety_filters") ELSE a2
    IN  IF Get(report.accuracy_drift, "drift_detected", False).value
        THEN Append(a3, "fine_tune_model") ELSE a3

\* decide_actions with the toxicity rule as an elif of the refusal rule
decide_actions_elif(report) ==
    LET a1 == IF Get(report.embedding_drift, "drift_detected", False).value
              THEN <<"reindex_documents">> ELSE <<>>
        behavior_changes == Get(report.behavior_drift, "changes", None)
        refusal == Get(report.behavior_drift, "drift_detected", False).value
                   /\ Get(behavior_changes, "refusal_drift_detected", FALSE)
        a2 == IF refusal THEN Append(a1, "fine_tune_model") ELSE a1
        a3 == IF ~refusal
                 /\ Get(report.behavior_drift, "drift_detected", False).value
                 /\ Get(behavior_changes, "toxicity_drift_detected", FALSE)
              THEN Append(a2, "update_safety_filters") ELSE a2
    IN  IF Get(report.accuracy_drift, "drift_detected", False).value
           /\ "fine_tune_model" \notin Range(a3)
        THEN Append(a3, "fine_tune_model") ELSE a3

\* decide_actions that re-indexes when no rule asked for anything
decide_actions_refresh(report) ==
    LET a1 == IF Get(report.embedding_drift, "drift_detected", False).value
              THEN <<"reindex_documents">> ELSE <<>>
        behavior_changes == Get(report.behavior_drift, "changes", None)
        a2 == IF Get(report.behavior_drift, "drift_detected", False).value
                 /\ Get(behavior_changes, "refusal_drift_detected", FALSE)
              THEN Append(a1, "fine_tune_model") ELSE a1
        a3 == IF Get(report.behavior_drift, "drift_detected", False).value
                 /\ Get(behavior_changes, "toxicity_drift_detected", FALSE)
              THEN Append(a2, "update_safety_filters") ELSE a2
        a4 == IF Get(report.accuracy_drift, "drift_detected", False).value
                 /\ "fine_tune_model" \notin Range(a3)
              THEN Append(a3, "fine_tune_model") ELSE a3
    IN  IF a4 = <<>> THEN <<"reindex_documents">> ELSE a4

\* decide_actions with the accuracy rule reading the truthiness of the
\* accuracy drift score instead of the accuracy verdict
decide_actions_score(report) ==
    LET a1 == IF Get(report.embedding_drift, "drift_detected", False).value
              THEN <<"reindex_documents">> ELSE <<>>
        behavior_changes == Get(report.behavior_drift, "changes", None)
        a2 == IF Get(report.behavior_drift, "drift_detected", False).value
                 /\ Get(behavior_changes, "refusal_drift_detected", FALSE)
              THEN Append(a1, "fine_tune_model") ELSE a1
        a3 == IF Get(report.behavior_drift, "drift_detected", False).value
                 /\ Get(behavior_changes, "toxicity_drift_detected", FALSE)
              THEN Append(a2, "update_safety_filters") ELSE a2
    IN  IF Get(report.accuracy_drift, "drift_score", Zero) # Zero
           /\ "fine_tune_model" \notin Range(a3)
        THEN Append(a3, "fine_tune_model") ELSE a3

\* decide_actions: the list of actions for a combined report
decide_actions(report) ==
    LET a1 == IF Get(report.embedding_drift, "drift_detected", False).value
              THEN <<"reindex_documents">> ELSE <<>>
        behavior_changes == Get(report.behavior_drift, "changes", None)
        a2 == IF Get(report.behavior_drift, "drift_detected", False).value
                 /\ Get(behavior_changes, "refusal_drift_detected", FALSE)
              THEN Append(a1, "fine_tune_model") ELSE a1
        a3 == IF Get(report.behavior_drift, "drift_detected", False).value
                 /\ Get(behavior_changes, "toxicity_drift_detected", FALSE)
              THEN Append(a2, "update_safety_filters") ELSE a2
    IN  IF Get(report.accuracy_drift, "drift_detected", False).value
           /\ "fine_tune_model" \notin Range(a3)
        THEN Append(a3, "fine_tune_model") ELSE a3

\* log_event: the event appended to self.event_log
Event(t, event_type, details) ==
    [timestamp |-> t, event_type |-> event_type, details |-> details]

-----------------------------------------------------------------------------
(* The databases the runs are checked on.                                   *)

MaxRuns == 2
MaxTicks == 1
MaxDocs == 1
NumCallers == 2
MaxCalls == 3

\* the day the tables below are laid out for: both windows of a monitor
\* that reads it lie in the tables
T0 == baseline_days + current_days

\* timestamps inside the baseline window and inside the current window
TsBaseline == T0 - current_days - 10
TsCurrent == T0 - 1

EmptyTable == <<>>

IRow(ts, kind, len, fb) ==
    [timestamp |-> ts,
     refusal_flag |-> kind = "refusal",
     toxicity_flag |-> kind = "toxic",
     error_flag |-> kind = "error",
     response_length |-> len,
     user_feedback_score |-> fb]

\* the rows of one window: p.n rows, of which p.refusals are refusals,
\* p.toxic are toxic and p.errors are errors
WindowRows(ts, p) ==
    {<<IRow(ts, "plain", p.len, p.fb), p.n - p.refusals - p.toxic - p.errors>>,
     <<IRow(ts, "refusal", p.len, p.fb), p.refusals>>,
     <<IRow(ts, "toxic", p.len, p.fb), p.toxic>>,
     <<IRow(ts, "error", p.len, p.fb), p.errors>>}

InteractionTable(b, c) ==
    Bag(WindowRows(TsBaseline, b) \cup WindowRows(TsCurrent, c))

Profile(n, refusals, toxic, errors, len, fb) ==
    [n |-> n, refusals |-> refusals, toxic |-> toxic, errors |-> errors,
     len |-> len, fb |-> fb]

NoRows == Profile(0, 0, 0, 0, <<100>>, None)
Baseline50 == Profile(50, 1, 0, 0, <<100>>, <<4>>)

Calm100 == Profile(100, 5, 2, 0, <<100>>, None)
Refusing100 == Profile(100, 15, 0, 0, <<100>>, <<4>>)
Toxic100 == Profile(100, 0, 10, 0, <<120>>, <<5>>)
RefusingToxic100 == Profile(100, 15, 10, 0, <<100>>, <<2>>)
Failing100 == Profile(100, 0, 0, 20, <<100>>, None)

\* an evaluation at time ts whose four metrics are acc thousandths
ERow(ts, acc) ==
    [timestamp |-> ts, accuracy |-> R(acc, 1000), precision |-> R(acc, 1000),
     recall |-> R(acc, 1000), f1_score |-> R(acc, 1000)]

EvalTable(b, c) ==
    Bag((IF b = None THEN {} ELSE {<<ERow(TsBaseline, b[1]), 2>>})
        \cup (IF c = None THEN {} ELSE {<<ERow(TsCurrent, c[1]), 1>>}))

TRow(ts, ok) == [timestamp |-> ts, success_flag |-> ok]

TaskTable(bn, bok, cn, cok) ==
    [exists |-> TRUE, rows |->
     Bag({<<TRow(TsBaseline, TRUE), bok>>, <<TRow(TsBaseline, FALSE), bn - bok>>,
         <<TRow(TsCurrent, TRUE), cok>>, <<TRow(TsCurrent, FALSE), cn - cok>>})]

NoTable == [exists |-> FALSE, rows |-> EmptyTable]

VRow(ts, type) == [timestamp |-> ts, type |-> type, vector |-> "v"]

EmbeddingTable(nb, nc) ==
    Bag({<<VRow(TsBaseline, "query"), nb>>, <<VRow(TsCurrent, "query"), nc>>,
         <<VRow(TsCurrent, "doc"), 1>>})

Stats(e, c, bv, cv, bs, cs, shift, psi) ==
    [euclidean_dist |-> e, cosine_dist |-> c, baseline_var |-> bv,
     current_var |-> cv, baseline_silhouette |-> bs,
     current_silhouette |-> cs, avg_centroid_shift |-> shift, psi |-> psi]

StatsCalm ==
    Stats(R(5, 100), R(1, 100), One, R(11, 10), R(5, 10), R(45, 100),
          R(1, 10), R(5, 100))
StatsShifted ==
    Stats(R(9, 10), R(3, 10), One, Float(2), R(5, 10), R(1, 10),
          R(5, 10), R(5, 10))
StatsPsiOnly ==
    Stats(R(5, 100), R(1, 100), One, One, R(5, 10), R(5, 10),
          R(1, 10), R(25, 100))
StatsTighter ==
    Stats(Zero, Zero, One, One, R(1, 10), R(9, 10), Zero, Zero)
\* one method above its threshold, the other three below
StatsCentroidOnly ==
    Stats(R(2, 10), R(1, 100), One, One, R(5, 10), R(5, 10),
          R(1, 10), R(5, 100))
StatsVarianceOnly ==
    Stats(R(5, 100), R(1, 100), One, R(14, 10), R(5, 10), R(5, 10),
          R(1, 10), R(5, 100))
StatsClusterOnly ==
    Stats(R(5, 100), R(1, 100), One, One, R(8, 10), R(5, 10),
          R(1, 10), R(5, 100))

Database(i, e, t, v, st) ==
    [interaction_log |-> i, evaluation_log |-> e, task_log |-> t,
     embeddings_log |-> v, embedding_stats |-> st]

\* the databases a pipeline is constructed on
Databases ==
    {\* no current interactions, no evaluations, no embeddings
     Database(InteractionTable(Baseline50, NoRows), EvalTable(None, None),
              NoTable, EmbeddingTable(0, 0), StatsCalm),
     \* nothing drifts
     Database(InteractionTable(Baseline50, Calm100),
              EvalTable(<<850>>, <<830>>), TaskTable(10, 8, 10, 9),
              EmbeddingTable(6, 6), StatsCalm),
     \* refusals 1/50 -> 15/100
     Database(InteractionTable(Baseline50, Refusing100),
              EvalTable(None, None), NoTable, EmbeddingTable(6, 6),
              StatsCalm),
     \* toxicity 0/50 -> 10/100, accuracy and ratings improve, PSI 0.25
     Database(InteractionTable(Baseline50, Toxic100),
              EvalTable(<<800>>, <<900>>), NoTable, EmbeddingTable(3, 6),
              StatsPsiOnly),
     \* everything drifts
     Database(InteractionTable(Baseline50, RefusingToxic100),
              EvalTable(<<900>>, <<800>>), TaskTable(10, 9, 10, 5),
              EmbeddingTable(6, 6), StatsShifted),
     \* errors 0/50 -> 20/100, current accuracy 0, tighter clusters
     Database(InteractionTable(Baseline50, Failing100),
              EvalTable(<<800>>, <<0>>), NoTable, EmbeddingTable(6, 6),
              StatsTighter),
     \* only evaluations, and they improve
     Database(InteractionTable(Baseline50, NoRows),
              EvalTable(<<800>>, <<900>>), NoTable, EmbeddingTable(0, 0),
              StatsCalm),
     \* only the accuracy drops
     Database(InteractionTable(Baseline50, Calm100),
              EvalTable(<<900>>, <<800>>), NoTable, EmbeddingTable(6, 6),
              StatsCalm),
     \* only the embeddings move
     Database(InteractionTable(Baseline50, Calm100), EvalTable(None, None),
              NoTable, EmbeddingTable(6, 6), StatsShifted),
     \* refusals, toxicity, accuracy and task success drift; no query
     \* vectors in the current window
     Database(InteractionTable(Baseline50, RefusingToxic100),
              EvalTable(<<900>>, <<800>>), TaskTable(10, 9, 10, 5),
              EmbeddingTable(6, 0), StatsCalm),
     \* accuracy 0.5, 0.525, 0.7 -> 0.525: the drop lies on the threshold,
     \* above it or below it with the order in which the baseline is summed
     Database(InteractionTable(Baseline50, Calm100),
              Bag({<<ERow(TsBaseline, 500), 1>>,
                   <<ERow(TsBaseline + 1, 525), 1>>,
                   <<ERow(TsBaseline + 2, 700), 1>>,
                   <<ERow(TsCurrent, 525), 1>>}),
              NoTable, EmbeddingTable(6, 6), StatsCalm)}

-----------------------------------------------------------------------------
(* The pipeline instance after __init__, and the steps of run().           *)

\* the names of the gauges of DriftMetrics
Gauges ==
    {"embedding_drift_score", "behavior_drift_score", "accuracy_drift_score",
     "overall_drift_score", "model_accuracy", "refusal_rate", "toxicity_rate",
     "api_cost_usd"}

\* the names of the counters of DriftMetrics
Counters == {"retrain_events_total", "reindex_events_total"}

\* the threads that call the exporter
Callers == 1..NumCallers

\* no thread is inside a method of the exporter and none has called
\* anything: pending[t] are the Counter.inc and Gauge.set calls,
\* <<metric, argument>>, that thread t still has to complete, run_pending
\* the Gauge.set calls the thread inside run() still has to make, calls the
\* number of method calls made, retrain_calls and reindex_calls those of the
\* two increment methods, requested[g] the values passed to Gauge.set on
\* gauge g so far, lock[c] the thread that holds the lock of counter c (0:
\* none), and read[t] the value thread t read under that lock
InitialExporter ==
    [pending |-> [t \in Callers |-> <<>>],
     run_pending |-> <<>>,
     calls |-> 0,
     retrain_calls |-> 0,
     reindex_calls |-> 0,
     requested |-> [g \in Gauges |-> {}],
     lock |-> [c \in Counters |-> 0],
     read |-> [t \in Callers |-> None]]

\* config.get('baseline_days', 30), config.get('current_days', 7)
DefaultConfig ==
    [baseline_days |-> baseline_days, current_days |-> current_days]

\* the instance after __init__, constructed with one of the configurations
\* configs on one of the databases dbs
InitWith(dbs, configs) ==
    /\ clock = [day |-> None, changes |-> 0]
    /\ config \in configs
    /\ exporter = InitialExporter
    /\ \E d \in dbs :
           /\ interaction_log = d.interaction_log
           /\ evaluation_log = d.evaluation_log
           /\ task_log = d.task_log
           /\ embeddings_log = d.embeddings_log
           /\ embedding_stats = d.embedding_stats
    /\ docs_pending = MaxDocs
    /\ finetune_jobs = 0
    /\ pc = "idle"
    /\ runs = 0
    /\ start_time = None
    /\ embedding_report = None
    /\ behavior_report = None
    /\ accuracy_report = None
    /\ drift_report = None
    /\ actions = <<>>
    /\ action_results = <<>>
    /\ idx = 1
    /\ event_log = <<>>
    /\ metrics = InitialMetrics
    /\ files = <<>>
    /\ final_report = None
    /\ exception = None
    /\ monitors_invoked = <<>>
    /\ dispatched = <<>>
    /\ dispatch_failed = {}
    /\ decisions = {}

InitOn(dbs) == InitWith(dbs, {DefaultConfig})

Init == InitOn(Databases)

db == <<interaction_log, evaluation_log, task_log, embeddings_log,
        embedding_stats>>

\* the days a call of datetime.now() can return.  The code compares no
\* reading with the one before it, and the local wall clock can be set back:
\* a reading is any day from the day before the one the tables are laid out
\* for to MaxTicks days after it, later or earlier than the latest reading,
\* clock.day (None before the first reading).  clock.changes counts the
\* readings that found another day than the reading before them, at most
\* MaxTicks of them
datetime_now ==
    IF clock.day = None \/ clock.changes < MaxTicks
    THEN (T0 - 1)..(T0 + MaxTicks)
    ELSE {clock.day[1]}

\* the clock after a call of datetime.now() that returned day t
reading(t) ==
    [day |-> <<t>>,
     changes |-> clock.changes + IF clock.day \in {None, <<t>>} THEN 0 ELSE 1]

\* run() is called: start_time = datetime.now()
StartRun ==
    /\ pc \in {"idle", "done", "raised"}
    /\ runs < MaxRuns
    /\ runs' = runs + 1
    /\ \E t \in datetime_now :
           /\ clock' = reading(t)
           /\ start_time' = <<t>>
    /\ pc' = "detect_embedding"
    /\ embedding_report' = None
    /\ behavior_report' = None
    /\ accuracy_report' = None
    /\ drift_report' = None
    /\ actions' = <<>>
    /\ action_results' = <<>>
    /\ idx' = 1
    /\ final_report' = None
    /\ exception' = None
    /\ monitors_invoked' = <<>>
    /\ dispatched' = <<>>
    /\ dispatch_failed' = {}
    /\ decisions' = {}
    /\ UNCHANGED <<db, config, exporter, docs_pending, finetune_jobs, event_log, metrics,
                   files>>

\* run_drift_detection, lines 106-113: the embedding monitor returns or raises
DetectEmbedding ==
    /\ pc = "detect_embedding"
    /\ monitors_invoked' = Append(monitors_invoked, "embedding")
    /\ \E ok \in BOOLEAN, t \in datetime_now :
           /\ clock' = reading(t)
           /\ IF ok
              THEN /\ embedding_report' = detect_drift(t, "query")
                   /\ pc' = "detect_behavior"
                   /\ UNCHANGED exception
              ELSE /\ pc' = "raised"
                   /\ exception' = <<"embedding">>
                   /\ UNCHANGED embedding_report
    /\ UNCHANGED <<db, config, exporter, docs_pending, finetune_jobs, runs, start_time,
                   behavior_report, accuracy_report, drift_report, actions,
                   action_results, idx, event_log, metrics, files,
                   final_report, dispatched, dispatch_failed, decisions>>

\* run_drift_detection, lines 115-121: the behavior monitor returns or raises
DetectBehavior ==
    /\ pc = "detect_behavior"
    /\ monitors_invoked' = Append(monitors_invoked, "behavior")
    /\ \E ok \in BOOLEAN, t \in datetime_now :
           /\ clock' = reading(t)
           /\ IF ok
              THEN /\ behavior_report' = detect_behavior_drift(t)
                   /\ pc' = "detect_accuracy"
                   /\ UNCHANGED exception
              ELSE /\ pc' = "raised"
                   /\ exception' = <<"behavior">>
                   /\ UNCHANGED behavior_report
    /\ UNCHANGED <<db, config, exporter, docs_pending, finetune_jobs, runs, start_time,
                   embedding_report, accuracy_report, drift_report, actions,
                   action_results, idx, event_log, metrics, files,
                   final_report, dispatched, dispatch_failed, decisions>>

\* run_drift_detection, lines 123-129: the accuracy monitor returns or raises
DetectAccuracy ==
    /\ pc = "detect_accuracy"
    /\ monitors_invoked' = Append(monitors_invoked, "accuracy")
    /\ \E ok \in BOOLEAN, t \in datetime_now :
           /\ clock' = reading(t)
           /\ IF ok
              THEN /\ \E baseline_order \in
                           ScanOrders(Windows(t).baseline_start,
                                      Windows(t).baseline_end),
                         current_order \in
                           ScanOrders(Windows(t).current_start,
                                      Windows(t).current_end) :
                          accuracy_report' =
                              detect_accuracy_drift(t, baseline_order,
                                                    current_order)
                   /\ pc' = "combine"
                   /\ UNCHANGED exception
              ELSE /\ pc' = "raised"
                   /\ exception' = <<"accuracy">>
                   /\ UNCHANGED accuracy_report
    /\ UNCHANGED <<db, config, exporter, docs_pending, finetune_jobs, runs, start_time,
                   embedding_report, behavior_report, drift_report, actions,
                   action_results, idx, event_log, metrics, files,
                   final_report, dispatched, dispatch_failed, decisions>>

\* run_drift_detection, lines 131-150: build combined_report and enter
\* self.metrics.update_drift_metrics(combined_report)
Combine ==
    /\ pc = "combine"
    /\ \E t \in datetime_now :
           /\ clock' = reading(t)
           /\ drift_report' = combined_report(t, embedding_report,
                                              behavior_report, accuracy_report)
    /\ exporter' = [exporter EXCEPT !.run_pending = GaugeWrites(drift_report')]
    /\ pc' = "update_metrics"
    /\ UNCHANGED <<db, config, docs_pending, finetune_jobs, runs, start_time,
                   embedding_report, behavior_report, accuracy_report, actions,
                   action_results, idx, event_log, metrics, files, final_report,
                   exception, monitors_invoked, dispatched, dispatch_failed,
                   decisions>>

\* update_drift_metrics, lines 74-95, called by the run: the next
\* Gauge.set; after the last one run_drift_detection returns the report
UpdateDriftMetrics ==
    /\ pc = "update_metrics"
    /\ exporter.run_pending # <<>>
    /\ LET w == Head(exporter.run_pending)
       IN  /\ metrics' = set(metrics, w[1], w[2])
           /\ exporter' = [exporter EXCEPT !.run_pending = Tail(@)]
    /\ pc' = IF Tail(exporter.run_pending) = <<>>
             THEN "log_detection" ELSE "update_metrics"
    /\ UNCHANGED <<clock, db, config, docs_pending, finetune_jobs, runs, start_time,
                   embedding_report, behavior_report, accuracy_report,
                   drift_report, actions, action_results, idx, event_log,
                   files, final_report, exception, monitors_invoked,
                   dispatched, dispatch_failed, decisions>>

\* run, lines 265-269: log_event('drift_detection_complete', ...)
LogDetection ==
    /\ pc = "log_detection"
    /\ \E t \in datetime_now :
           /\ clock' = reading(t)
           /\ event_log' =
                  Append(event_log,
                         Event(t, "drift_detection_complete",
                               [drift_detected |->
                                    drift_report.overall_drift_detected,
                                drift_score |->
                                    drift_report.overall_drift_score]))
    /\ pc' = "decide"
    /\ UNCHANGED <<db, config, exporter, docs_pending, finetune_jobs, runs, start_time,
                   embedding_report, behavior_report, accuracy_report,
                   drift_report, actions, action_results, idx, metrics, files,
                   final_report, exception, monitors_invoked, dispatched,
                   dispatch_failed, decisions>>

\* run, lines 271-276: actions = self.decide_actions(drift_report)
Decide ==
    /\ pc = "decide"
    /\ actions' = decide_actions(drift_report)
    /\ decisions' = decisions \cup {<<drift_report, actions'>>}
    /\ action_results' = <<>>
    /\ idx' = 1
    /\ pc' = IF actions' # <<>> THEN "execute" ELSE "report"
    /\ UNCHANGED <<clock, db, config, exporter, docs_pending, finetune_jobs, runs, start_time,
                   embedding_report, behavior_report, accuracy_report,
                   drift_report, event_log, metrics, files, final_report,
                   exception, monitors_invoked, dispatched, dispatch_failed>>

\* execute_actions, lines 229-231: the dispatcher raised; a retry of the
\* same action instead of the next one
DispatchRaisesRetry(action) ==
    /\ action # "update_safety_filters"
    /\ action_results' =
           (action :> [status |-> "failed", error |-> "error"])
           @@ action_results
    /\ dispatch_failed' = dispatch_failed \cup {action}
    /\ idx' = idx
    /\ pc' = "execute"
    /\ UNCHANGED <<docs_pending, finetune_jobs, exception>>

\* execute_actions without the try/except: the exception leaves run()
DispatchRaisesAbort(action) ==
    /\ action # "update_safety_filters"
    /\ dispatch_failed' = dispatch_failed \cup {action}
    /\ exception' = <<action>>
    /\ pc' = "raised"
    /\ UNCHANGED <<action_results, idx, docs_pending, finetune_jobs>>

\* execute_actions, lines 229-231: the dispatcher raised; the run goes back
\* to deciding instead of going on with the list
DispatchRaisesRedecide(action) ==
    /\ action # "update_safety_filters"
    /\ action_results' =
           (action :> [status |-> "failed", error |-> "error"])
           @@ action_results
    /\ dispatch_failed' = dispatch_failed \cup {action}
    /\ idx' = idx
    /\ pc' = "decide"
    /\ UNCHANGED <<docs_pending, finetune_jobs, exception>>

\* execute_actions, lines 229-231: the dispatcher raised and the handler
\* only logs the error, recording nothing for the action
DispatchRaisesSilent(action) ==
    /\ action # "update_safety_filters"
    /\ dispatch_failed' = dispatch_failed \cup {action}
    /\ idx' = idx + 1
    /\ pc' = IF idx' > Len(actions) THEN "log_actions" ELSE "execute"
    /\ UNCHANGED <<action_results, docs_pending, finetune_jobs, exception>>

\* execute_actions, lines 229-231: the dispatcher raised (except Exception)
DispatchRaises(action) ==
    /\ action # "update_safety_filters"
    /\ action_results' =
           (action :> [status |-> "failed", error |-> "error"])
           @@ action_results
    /\ dispatch_failed' = dispatch_failed \cup {action}
    /\ idx' = idx + 1
    /\ pc' = IF idx' > Len(actions) THEN "log_actions" ELSE "execute"
    /\ UNCHANGED <<docs_pending, finetune_jobs, exception>>

\* execute_actions, lines 205-227: the dispatcher returned its result.
\* reindex() indexes k of the pending documents (a document whose embedding
\* call fails is skipped); fine_tune() starts one job.
DispatchReturns(action) ==
    /\ CASE action = "reindex_documents" ->
              \E k \in 0..docs_pending :
                  /\ docs_pending' = docs_pending - k
                  /\ action_results' =
                         (action :> [status |-> "success",
                                     documents_processed |-> k])
                         @@ action_results
                  /\ UNCHANGED finetune_jobs
         [] action = "fine_tune_model" ->
              /\ finetune_jobs' = finetune_jobs + 1
              /\ action_results' =
                     (action :> [status |-> "initiated",
                                 job_id |-> finetune_jobs',
                                 file_id |-> finetune_jobs'])
                     @@ action_results
              /\ UNCHANGED docs_pending
         [] action = "update_safety_filters" ->
              /\ action_results' =
                     (action :> [status |-> "updated",
                                 note |-> "Increased moderation strictness"])
                     @@ action_results
              /\ UNCHANGED <<docs_pending, finetune_jobs>>
    /\ idx' = idx + 1
    /\ pc' = IF idx' > Len(actions) THEN "log_actions" ELSE "execute"
    /\ UNCHANGED <<dispatch_failed, exception>>

\* execute_actions, lines 203-231: one iteration of the for loop
ExecuteAction ==
    /\ pc = "execute"
    /\ idx <= Len(actions)
    /\ dispatched' = Append(dispatched, actions[idx])
    /\ \/ DispatchReturns(actions[idx])
       \/ DispatchRaises(actions[idx])
    /\ UNCHANGED <<clock, db, config, exporter, runs, start_time, embedding_report,
                   behavior_report, accuracy_report, drift_report, actions,
                   event_log, metrics, files, final_report,
                   monitors_invoked, decisions>>

\* run, lines 279-287: log_event('actions_executed', ...), then the counter
LogActions ==
    /\ pc = "log_actions"
    /\ \E t \in datetime_now :
           /\ clock' = reading(t)
           /\ event_log' =
                  Append(event_log,
                         Event(t, "actions_executed",
                               [actions |-> actions,
                                results |-> action_results]))
    /\ metrics' = IF "fine_tune_model" \in Range(actions)
                  THEN increment_retrain_events(metrics)
                  ELSE metrics
    /\ pc' = "report"
    /\ UNCHANGED <<db, config, exporter, docs_pending, finetune_jobs, runs, start_time,
                   embedding_report, behavior_report, accuracy_report,
                   drift_report, actions, action_results, idx, files,
                   final_report, exception, monitors_invoked, dispatched,
                   dispatch_failed, decisions>>

\* run, lines 293-302: the report of the run that started at start and
\* ends at t
FinalReport(start, t) ==
    [pipeline_run_id |-> <<"drift", start>>,
     start_time |-> start,
     end_time |-> t,
     duration_seconds |-> t - start,
     drift_report |-> drift_report,
     actions_taken |-> actions,
     action_results |-> action_results,
     events |-> event_log]

\* the json encoder has an encoding for the object: it has one for a bool
\* and raises TypeError on a numpy.bool_
encodable(x) == x.class = "bool"

\* json.dump accepts every value of the report.  The four embedding methods
\* store the result of comparing numpy scalars, a numpy.bool_, as their
\* drift_detected (embedding_drift.py 122-130, 148-156, 214-226, 263-268),
\* detect_drift passes them on and returns one of them as its own verdict
\* (313-318, 343-350), run_drift_detection returns that one as
\* overall_drift_detected when it is true (drift_pipeline.py 137-141), and
\* run() stores overall_drift_detected in the event log of the instance
\* (265-269), which every later report of the instance contains (301).  The
\* other values of a report are strings, ints, floats, bools, None, lists
\* and dicts.
json_serializable(report) ==
    LET dr == report.drift_report
    IN  /\ encodable(dr.overall_drift_detected)
        /\ \A m \in {dr.embedding_drift, dr.behavior_drift,
                      dr.accuracy_drift} :
               /\ encodable(Get(m, "drift_detected", False))
               /\ "methods" \in DOMAIN m =>
                      \A k \in DOMAIN m.methods :
                          encodable(m.methods[k].drift_detected)
        /\ \A i \in DOMAIN report.events :
               "drift_detected" \in DOMAIN report.events[i].details =>
                   encodable(report.events[i].details.drift_detected)

\* what an interrupted json.dump leaves in the file opened with 'w'
Truncated == [truncated |-> TRUE]

\* run, lines 289-310: end_time = datetime.now(), final_report = {...}
AssembleReport ==
    /\ pc = "report"
    /\ \E t \in datetime_now :
           /\ clock' = reading(t)
           /\ final_report' = FinalReport(start_time[1], t)
    /\ pc' = "save"
    /\ UNCHANGED <<db, config, exporter, docs_pending, finetune_jobs, runs, start_time,
                   embedding_report, behavior_report, accuracy_report,
                   drift_report, actions, action_results, idx, event_log,
                   metrics, files, exception, monitors_invoked, dispatched,
                   dispatch_failed, decisions>>

\* run, lines 312-318: open the file, json.dump, return final_report.
\* json.dump raises TypeError on a report it cannot encode, after the file
\* was opened with 'w' and partly written; a write may raise OSError in the
\* same way, and open() may raise OSError before the file is touched.  An
\* exception leaves run() and its final_report with it.
Report ==
    /\ pc = "save"
    /\ \/ /\ json_serializable(final_report)
          /\ files' =
                 (<<"drift_report", start_time[1]>> :> final_report) @@ files
          /\ pc' = "done"
          /\ UNCHANGED <<final_report, exception>>
       \/ /\ files' = (<<"drift_report", start_time[1]>> :> Truncated) @@ files
          /\ pc' = "raised"
          /\ exception' = <<"report">>
          /\ final_report' = None
       \/ /\ pc' = "raised"
          /\ exception' = <<"report">>
          /\ final_report' = None
          /\ UNCHANGED files
    /\ UNCHANGED <<clock, db, config, exporter, docs_pending, finetune_jobs, runs, start_time,
                   embedding_report, behavior_report, accuracy_report,
                   drift_report, actions, action_results, idx, event_log,
                   metrics, monitors_invoked, dispatched,
                   dispatch_failed, decisions>>

Next ==
    \/ StartRun
    \/ DetectEmbedding
    \/ DetectBehavior
    \/ DetectAccuracy
    \/ Combine
    \/ UpdateDriftMetrics
    \/ LogDetection
    \/ Decide
    \/ ExecuteAction
    \/ LogActions
    \/ AssembleReport
    \/ Report

Spec == Init /\ [][Next]_vars

\* __main__, lines 345-346: the pipeline is constructed and run() is called
\* once
RunOnce ==
    /\ runs = 0
    /\ StartRun

NextOnce ==
    \/ RunOnce
    \/ DetectEmbedding
    \/ DetectBehavior
    \/ DetectAccuracy
    \/ Combine
    \/ UpdateDriftMetrics
    \/ LogDetection
    \/ Decide
    \/ ExecuteAction
    \/ LogActions
    \/ AssembleReport
    \/ Report

\* one run of a pipeline on each of the databases
RunSpec == Init /\ [][NextOnce]_vars

-----------------------------------------------------------------------------
(* The decision engine over every combination of monitor verdicts: one     *)
(* run() of a pipeline on a database that gives the embedding monitor no   *)
(* data, no drift or drift, the behavior monitor no data or any of the     *)
(* sixteen combinations of its four flags, and the accuracy monitor no     *)
(* evaluations, a drop below the threshold or a drop above it.             *)

\* current interactions: refusals 5% or 15%, toxicity 2% or 10%, errors 0%
\* or 20%, responses as long as the baseline's or twice as long
DecisionProfiles ==
    {NoRows}
    \cup {Profile(100, r, t, e, <<len>>, None) :
              r \in {5, 15}, t \in {2, 10}, e \in {0, 20},
              len \in {100, 200}}

DecisionDatabases ==
    {Database(InteractionTable(Baseline50, c), EvalTable(e[1], e[2]),
              NoTable, EmbeddingTable(v[1], v[1]), v[2]) :
         c \in DecisionProfiles,
         e \in {<<None, None>>, <<<<850>>, <<830>>>>, <<<<900>>, <<800>>>>},
         v \in {<<0, StatsCalm>>, <<6, StatsCalm>>, <<6, StatsShifted>>}}

InitDecide == InitOn(DecisionDatabases)

DecideSpec == InitDecide /\ [][NextOnce]_vars

-----------------------------------------------------------------------------
(* The behavior monitor over interaction logs whose baseline and current    *)
(* windows vary independently, with rates below, at and above the           *)
(* thresholds; no evaluations, tasks or query vectors.                      *)

BaselineProfiles ==
    {Profile(50, r, t, 0, <<100>>, None) : r \in {0, 1, 25}, t \in {0, 25}}

CurrentProfiles ==
    UNION {{Profile(n, r, t, 0, <<100>>, None) :
                r \in {0, n \div 10, (n \div 10) + 1},
                t \in {0, n \div 20, (n \div 20) + 1}} : n \in {20, 100}}

InteractionDatabases ==
    {Database(InteractionTable(b, c), EvalTable(None, None), NoTable,
              EmbeddingTable(0, 0), StatsCalm) :
         b \in BaselineProfiles, c \in CurrentProfiles}

InitBehavior == InitOn(InteractionDatabases)

BehaviorSpec == InitBehavior /\ [][NextOnce]_vars

-----------------------------------------------------------------------------
(* Pipelines constructed with window lengths that are negative, zero or     *)
(* the defaults.                                                            *)

Configs ==
    {[baseline_days |-> b, current_days |-> c] :
         b \in {-baseline_days, 0, baseline_days},
         c \in {-current_days, 0, current_days}}

InitConfig == InitWith(Databases, Configs)

ConfigSpec == InitConfig /\ [][NextOnce]_vars

-----------------------------------------------------------------------------
(* Threads calling the exporter of one pipeline instance concurrently.      *)
(* A method of DriftMetrics is a sequence of Counter.inc() and Gauge.set()  *)
(* calls and interleaves with the other callers.  Counter and Gauge are     *)
(* prometheus_client's and not part of the repository; they are modelled    *)
(* from the specification's requirement that the exporter's counters and    *)
(* gauges support concurrent increment and set without lost updates:        *)
(* inc() reads the value and writes it back incremented while holding the   *)
(* lock of the value, set() stores its argument in one step.                *)

EmptyDatabase ==
    Database(InteractionTable(NoRows, NoRows), EvalTable(None, None),
             NoTable, EmbeddingTable(0, 0), StatsCalm)

\* drift reports passed to update_drift_metrics
MetricReports ==
    {[embedding_drift |-> [drift_score |-> x],
      behavior_drift |->
          [drift_score |-> x,
           current_period |->
               [metrics |-> [refusal_rate |-> x, toxicity_rate |-> x]]],
      accuracy_drift |->
          [drift_score |-> x,
           current_period |->
               [evaluation_metrics |-> [avg_accuracy |-> a]]],
      overall_drift_score |-> x] :
         <<x, a>> \in {<<R(1, 4), None>>, <<R(3, 4), R(9, 10)>>}}

\* what the exporter's callers leave alone
run_vars ==
    <<clock, db, config, docs_pending, finetune_jobs, pc, runs, start_time,
      embedding_report, behavior_report, accuracy_report, drift_report,
      actions, action_results, idx, event_log, files, final_report,
      exception, monitors_invoked, dispatched, dispatch_failed, decisions>>

InitMetrics == InitOn({EmptyDatabase})

\* thread t is in none of the exporter's methods
Idle(t) == exporter.pending[t] = <<>>

\* requested with the values of the Gauge.set calls in writes added
Requested(requested, writes) ==
    [g \in Gauges |->
         requested[g] \cup {writes[i][2] : i \in {j \in DOMAIN writes :
                                                     writes[j][1] = g}}]

\* a thread enters increment_retrain_events()
CallIncrementRetrain ==
    /\ exporter.calls < MaxCalls
    /\ \E t \in Callers :
           /\ Idle(t)
           /\ exporter' =
                  [exporter EXCEPT
                       !.calls = @ + 1,
                       !.retrain_calls = @ + 1,
                       !.pending[t] = <<<<"retrain_events_total", None>>>>]
    /\ UNCHANGED <<metrics, run_vars>>

\* a thread enters increment_reindex_events()
CallIncrementReindex ==
    /\ exporter.calls < MaxCalls
    /\ \E t \in Callers :
           /\ Idle(t)
           /\ exporter' =
                  [exporter EXCEPT
                       !.calls = @ + 1,
                       !.reindex_calls = @ + 1,
                       !.pending[t] = <<<<"reindex_events_total", None>>>>]
    /\ UNCHANGED <<metrics, run_vars>>

\* a thread enters update_cost(cost)
CallUpdateCost ==
    /\ exporter.calls < MaxCalls
    /\ \E t \in Callers, cost \in {One, Float(2)} :
           /\ Idle(t)
           /\ LET writes == <<<<"api_cost_usd", cost>>>>
              IN  exporter' =
                      [exporter EXCEPT
                           !.calls = @ + 1,
                           !.pending[t] = writes,
                           !.requested = Requested(@, writes)]
    /\ UNCHANGED <<metrics, run_vars>>

\* a thread enters update_drift_metrics(report)
CallUpdateDriftMetrics ==
    /\ exporter.calls < MaxCalls
    /\ \E t \in Callers, report \in MetricReports :
           /\ Idle(t)
           /\ LET writes == GaugeWrites(report)
              IN  exporter' =
                      [exporter EXCEPT
                           !.calls = @ + 1,
                           !.pending[t] = writes,
                           !.requested = Requested(@, writes)]
    /\ UNCHANGED <<metrics, run_vars>>

\* Counter.inc() that reads the value without waiting for its lock
CounterLockNoWait ==
    /\ \E t \in Callers :
           /\ ~Idle(t)
           /\ exporter.read[t] = None
           /\ LET c == Head(exporter.pending[t])[1]
              IN  /\ c \in Counters
                  /\ exporter' = [exporter EXCEPT
                                     !.lock[c] = t,
                                     !.read[t] = <<metrics[c]>>]
    /\ UNCHANGED <<metrics, run_vars>>

\* Counter.inc() in thread t: the thread takes the lock of the value once
\* no other thread holds it, and reads the value
CounterLock ==
    /\ \E t \in Callers :
           /\ ~Idle(t)
           /\ exporter.read[t] = None
           /\ LET c == Head(exporter.pending[t])[1]
              IN  /\ c \in Counters
                  /\ exporter.lock[c] = 0
                  /\ exporter' = [exporter EXCEPT
                                     !.lock[c] = t,
                                     !.read[t] = <<metrics[c]>>]
    /\ UNCHANGED <<metrics, run_vars>>

\* Counter.inc() in thread t: the thread writes the value it read plus one,
\* releases the lock and returns
CounterInc ==
    /\ \E t \in Callers :
           /\ exporter.read[t] # None
           /\ LET c == Head(exporter.pending[t])[1]
              IN  /\ metrics' = [metrics EXCEPT ![c] = exporter.read[t][1] + 1]
                  /\ exporter' = [exporter EXCEPT
                                     !.lock[c] = 0,
                                     !.read[t] = None,
                                     !.pending[t] = Tail(@)]
    /\ UNCHANGED run_vars

\* Gauge.set(v) in thread t, the next call of the method the thread is in
GaugeSet ==
    /\ \E t \in Callers :
           /\ ~Idle(t)
           /\ LET w == Head(exporter.pending[t])
              IN  /\ w[1] \in Gauges
                  /\ metrics' = set(metrics, w[1], w[2])
                  /\ exporter' = [exporter EXCEPT !.pending[t] = Tail(@)]
    /\ UNCHANGED run_vars

NextMetrics ==
    \/ CallIncrementRetrain
    \/ CallIncrementReindex
    \/ CallUpdateCost
    \/ CallUpdateDriftMetrics
    \/ CounterLock
    \/ CounterInc
    \/ GaugeSet

MetricsSpec == InitMetrics /\ [][NextMetrics]_vars

-----------------------------------------------------------------------------
(* Databases with records on the boundary between the two windows: for a   *)
(* monitor that reads day T0 the boundary is TsBoundary, for one that      *)
(* reads a day later it is TsBoundary + 1; every step of run() that reads   *)
(* the clock may find another day.                                         *)

TsBoundary == T0 - current_days

\* interactions, evaluations and query vectors before, on and after the
\* boundary; refusals on the boundary only
BoundaryDatabases ==
    {Database(
         Bag({<<IRow(TsBaseline, "plain", <<100>>, <<4>>), 5>>,
              <<IRow(TsBoundary, "refusal", <<100>>, <<4>>), onb>>,
              <<IRow(TsBoundary + 1, "plain", <<100>>, <<4>>), after>>,
              <<IRow(TsCurrent, "plain", <<100>>, <<4>>), after>>}),
         Bag({<<ERow(TsBaseline, 900), 1>>, <<ERow(TsBoundary, 800), onb>>,
              <<ERow(TsCurrent, 800), after>>}),
         NoTable,
         Bag({<<VRow(TsBaseline, "query"), 4>>,
              <<VRow(TsBoundary, "query"), onb>>,
              <<VRow(TsCurrent, "query"), after>>}),
         StatsCalm) : onb \in {1, 3}, after \in {0, 2}}

InitWindows == InitOn(BoundaryDatabases)

WindowSpec == InitWindows /\ [][NextOnce]_vars

-----------------------------------------------------------------------------
(* Pipelines on databases whose stored vectors put each of the four        *)
(* embedding methods above its threshold alone, with enough samples for    *)
(* the cluster analysis and with too few.                                  *)

EmbeddingDatabases ==
    {Database(InteractionTable(Baseline50, Calm100), EvalTable(None, None),
              NoTable, EmbeddingTable(nb, 6), st) :
         nb \in {3, 6},
         st \in {StatsCalm, StatsCentroidOnly, StatsVarianceOnly,
                 StatsClusterOnly, StatsPsiOnly, StatsShifted,
                 StatsTighter}}

InitEmbedding == InitOn(EmbeddingDatabases)

EmbeddingSpec == InitEmbedding /\ [][NextOnce]_vars

-----------------------------------------------------------------------------
(* Properties.                                                              *)

\* run() has returned or has been left by an exception
RunEnded == pc \in {"done", "raised"}

\* a monitor call of the current run raised
MonitorFailed == exception # None /\ exception[1] \in Monitors

\* decide_actions has returned in the current run
Decided == pc \in {"execute", "log_actions", "report", "save", "done"}

Detected(r) == Get(r, "drift_detected", False).value
Score(r) == IF "drift_score" \in DOMAIN r THEN r.drift_score ELSE Zero
RefusalFlag(report) ==
    "changes" \in DOMAIN report.behavior_drift
    /\ report.behavior_drift.changes.refusal_drift_detected
ToxicityFlag(report) ==
    "changes" \in DOMAIN report.behavior_drift
    /\ report.behavior_drift.changes.toxicity_drift_detected
NoDuplicates(s) == \A i, j \in DOMAIN s : i # j => s[i] # s[j]
InUnitInterval(x) == RLe(Zero, x) /\ RLe(x, One)

\* C1: when a monitor raises during detection, the other monitors are still
\* invoked, the failure is recorded in the event log and the run goes on to
\* decide: a run that has ended after a monitor failure has invoked all
\* three monitors, holds a combined report and has a failure event.
C1_MonitorFailureIsolated ==
    (RunEnded /\ MonitorFailed) =>
        /\ Range(monitors_invoked) = Monitors
        /\ drift_report # None
        /\ \E i \in DOMAIN event_log :
               event_log[i].event_type = "monitor_failed"

\* C2: every run that has ended has produced its Run Report: the report is
\* returned and the file named after the run's start time holds it,
\* whatever monitors or dispatchers failed.
C2_RunAlwaysReports ==
    RunEnded =>
        /\ final_report # None
        /\ <<"drift_report", start_time[1]>> \in DOMAIN files
        /\ files[<<"drift_report", start_time[1]>>] = final_report

\* C3: a dispatcher that raises is recorded as {status: failed, error}, does
\* not end the run, every action of the list is still attempted in order,
\* and the returned report carries the failed entry.
C3_DispatchFailureIsolated ==
    /\ \A a \in dispatch_failed :
           /\ a \in DOMAIN action_results
           /\ action_results[a].status = "failed"
           /\ "error" \in DOMAIN action_results[a]
    /\ exception # None => exception[1] \notin Actions
    /\ pc \in {"log_actions", "report", "save", "done"} =>
           dispatched = actions
    /\ pc \in {"save", "done"} =>
           \A a \in dispatch_failed :
               /\ a \in DOMAIN final_report.action_results
               /\ final_report.action_results[a].status = "failed"

\* C3 witness: the first dispatcher failed, the two later actions were
\* still executed and the run has assembled its report with the failed
\* entry.
C3_Witness ==
    /\ pc = "save"
    /\ dispatch_failed = {"reindex_documents"}
    /\ dispatched = <<"reindex_documents", "fine_tune_model",
                      "update_safety_filters">>
    /\ final_report.action_results["reindex_documents"].status = "failed"
    /\ final_report.action_results["fine_tune_model"].status = "initiated"

\* C4: within one run no dispatcher is invoked twice, so a dispatcher that
\* failed is not invoked again.
C4_AtMostOncePerRun ==
    /\ NoDuplicates(dispatched)
    /\ Len(dispatched) <= Cardinality(Actions)

\* C4 witness: fine-tuning was asked for by two rules, its dispatcher
\* failed, and the run has gone on to assemble its report.
C4_Witness ==
    /\ pc = "save"
    /\ "fine_tune_model" \in dispatch_failed
    /\ RefusalFlag(drift_report)
    /\ Detected(drift_report.accuracy_drift)
    /\ Len(dispatched) = 3

\* C5: the list returned by decide_actions has no duplicates.
C5_NoDuplicateActions ==
    /\ NoDuplicates(actions)
    /\ \A d \in decisions : NoDuplicates(d[2])

\* C5 witness: refusal drift and accuracy drift both ask for fine-tuning.
C5_Witness ==
    /\ pc = "execute"
    /\ RefusalFlag(drift_report)
    /\ Detected(drift_report.accuracy_drift)
    /\ "fine_tune_model" \in Range(actions)

\* C6: the retraining counter changes only in a run that dispatched
\* fine_tune_model and whose dispatcher call succeeded.
C6_RetrainOnlyOnSuccess ==
    [][metrics'.retrain_events_total # metrics.retrain_events_total =>
           /\ "fine_tune_model" \in Range(dispatched)
           /\ "fine_tune_model" \notin dispatch_failed]_vars

\* C7: the rules of decide_actions apply independently: embedding drift
\* gives reindex_documents, the refusal flag or accuracy drift gives
\* fine_tune_model, the toxicity flag gives update_safety_filters.
C7_RulesIndependent ==
    Decided =>
        /\ Detected(drift_report.embedding_drift) =>
               "reindex_documents" \in Range(actions)
        /\ (RefusalFlag(drift_report)
            \/ Detected(drift_report.accuracy_drift)) =>
               "fine_tune_model" \in Range(actions)
        /\ ToxicityFlag(drift_report) =>
               "update_safety_filters" \in Range(actions)

\* C7 witness: refusal, toxicity, accuracy and embedding drift together.
C7_Witness ==
    /\ pc = "execute"
    /\ RefusalFlag(drift_report)
    /\ ToxicityFlag(drift_report)
    /\ Detected(drift_report.accuracy_drift)
    /\ Detected(drift_report.embedding_drift)
    /\ actions = <<"reindex_documents", "fine_tune_model",
                   "update_safety_filters">>

\* C9: in a combined report overall_drift_detected.value is the OR of the three
\* verdicts, overall_drift_score the maximum of the three scores (0 for a
\* report without a score), and the score lies in [0,1].
C9_CombinedReport ==
    drift_report # None =>
        LET scores == {Score(embedding_report), Score(behavior_report),
                       Score(accuracy_report)}
        IN  /\ drift_report.embedding_drift = embedding_report
            /\ drift_report.behavior_drift = behavior_report
            /\ drift_report.accuracy_drift = accuracy_report
            /\ drift_report.overall_drift_detected.value =
                   (Detected(embedding_report) \/ Detected(behavior_report)
                    \/ Detected(accuracy_report))
            /\ drift_report.overall_drift_score \in scores
            /\ \A x \in scores : RLe(x, drift_report.overall_drift_score)
            /\ InUnitInterval(drift_report.overall_drift_score)

\* C9 witness: only the accuracy monitor drifts and carries the maximum.
C9_Witness ==
    /\ drift_report # None
    /\ Detected(accuracy_report)
    /\ ~Detected(embedding_report)
    /\ ~Detected(behavior_report)
    /\ RLt(Score(behavior_report), Score(accuracy_report))
    /\ RLt(Score(embedding_report), Score(accuracy_report))

\* C10: the drift_score of every monitor report lies in [0,1].
C10_ScoresInUnitInterval ==
    /\ "drift_score" \in DOMAIN embedding_report =>
           InUnitInterval(embedding_report.drift_score)
    /\ "drift_score" \in DOMAIN behavior_report =>
           InUnitInterval(behavior_report.drift_score)
    /\ "drift_score" \in DOMAIN accuracy_report =>
           InUnitInterval(accuracy_report.drift_score)

\* a report that carries an error and neither a verdict nor a score
NoVerdict(r) ==
    /\ "error" \in DOMAIN r
    /\ "drift_detected" \notin DOMAIN r
    /\ "drift_score" \notin DOMAIN r

\* the number of interactions, and of query vectors, in [start, end)
Interactions(start, end) ==
    Count(interaction_log, RowsIn(interaction_log, start, end))
Vectors(start, end) ==
    Count(embeddings_log,
          {r \in RowsIn(embeddings_log, start, end) : r.type = "query"})

\* C11: a behavior or embedding monitor that finds a window without records
\* returns a report with the error, the two record counts and neither a
\* verdict nor a score; such a report adds nothing to the overall verdict,
\* nothing to the overall score and no action.
C11_InsufficientData ==
    /\ behavior_report # None =>
           LET w == Windows(behavior_report.timestamp)
               nb == Interactions(w.baseline_start, w.baseline_end)
               nc == Interactions(w.current_start, w.current_end)
           IN  (nb = 0 \/ nc = 0) =>
                   /\ NoVerdict(behavior_report)
                   /\ behavior_report.baseline_interactions = nb
                   /\ behavior_report.current_interactions = nc
    /\ embedding_report # None =>
           LET w == Windows(embedding_report.timestamp)
               nb == Vectors(w.baseline_start, w.baseline_end)
               nc == Vectors(w.current_start, w.current_end)
           IN  (nb = 0 \/ nc = 0) =>
                   /\ NoVerdict(embedding_report)
                   /\ embedding_report.baseline_count = nb
                   /\ embedding_report.current_count = nc
    /\ (drift_report # None /\ NoVerdict(drift_report.behavior_drift)) =>
           /\ drift_report.overall_drift_detected.value =
                  (Detected(embedding_report) \/ Detected(accuracy_report))
           /\ drift_report.overall_drift_score =
                  RMaxSeq(<<Zero, Score(embedding_report),
                            Score(accuracy_report)>>)
    /\ (drift_report # None /\ NoVerdict(drift_report.embedding_drift)) =>
           /\ drift_report.overall_drift_detected.value =
                  (Detected(behavior_report) \/ Detected(accuracy_report))
           /\ drift_report.overall_drift_score =
                  RMaxSeq(<<Zero, Score(behavior_report),
                            Score(accuracy_report)>>)
    /\ (Decided /\ NoVerdict(drift_report.behavior_drift)) =>
           /\ "update_safety_filters" \notin Range(actions)
           /\ "fine_tune_model" \in Range(actions) =>
                  Detected(accuracy_report)
    /\ (Decided /\ NoVerdict(drift_report.embedding_drift)) =>
           "reindex_documents" \notin Range(actions)

\* C11 witness: 50 interactions in the baseline window and none in the
\* current one, no query vectors at all; the run ended without actions.
C11_Witness ==
    /\ pc = "done"
    /\ NoVerdict(behavior_report)
    /\ behavior_report.baseline_interactions = 50
    /\ behavior_report.current_interactions = 0
    /\ NoVerdict(embedding_report)
    /\ embedding_report.baseline_count = 0
    /\ ~final_report.drift_report.overall_drift_detected.value
    /\ final_report.actions_taken = <<>>

\* the phase of run() a control point belongs to
Phase(p) ==
    CASE p = "idle" -> 0
      [] p \in {"detect_embedding", "detect_behavior", "detect_accuracy",
                "detecting", "combine", "update_metrics",
                "log_detection"} -> 1
      [] p = "decide" -> 2
      [] p \in {"execute", "log_actions"} -> 3
      [] p \in {"report", "save"} -> 4
      [] p \in {"done", "raised"} -> 5

\* C12: within a run the phases only advance; a monitor is invoked only
\* while detecting, the decision is taken after the three monitors and
\* before any dispatcher, a dispatcher is invoked only before the final
\* report, and the final report is assembled after the last dispatch.
C12_PhaseOrder ==
    [][/\ runs' = runs => Phase(pc') >= Phase(pc)
       /\ (runs' = runs /\ monitors_invoked' # monitors_invoked) =>
              /\ Phase(pc) = 1
              /\ drift_report = None
              /\ dispatched = <<>>
              /\ final_report = None
       /\ (pc = "decide" /\ pc' # "decide") =>
              /\ monitors_invoked = <<"embedding", "behavior", "accuracy">>
              /\ dispatched = <<>>
              /\ final_report = None
       /\ (runs' = runs /\ dispatched' # dispatched) =>
              /\ Phase(pc) = 3
              /\ final_report = None
       /\ (runs' = runs /\ final_report' # final_report
           /\ final_report' # None) =>
              /\ pc = "report"
              /\ dispatched = actions
              /\ pc' = "save"
       /\ (pc' = "done" /\ pc # "done") => pc = "save"]_vars

\* C12 witness: a second run of the instance went through detection,
\* decision, two dispatches and the report.
C12_Witness ==
    /\ runs = 2
    /\ pc = "done"
    /\ monitors_invoked = <<"embedding", "behavior", "accuracy">>
    /\ Len(dispatched) = 2
    /\ final_report.actions_taken = dispatched

\* the three monitors of the current run returned and none reports drift
AllQuiet ==
    /\ drift_report # None
    /\ ~Detected(embedding_report)
    /\ ~Detected(behavior_report)
    /\ ~Detected(accuracy_report)

\* the event types run() passes to log_event (lines 266 and 280)
RunEventTypes == {"drift_detection_complete", "actions_executed"}

\* C13 as stated: a run in which no monitor reports drift assembles a
\* report with no actions and no results, dispatches nothing, and has a
\* "no drift, no actions" event in the event log.
C13_NoDriftEventLogged ==
    (pc \in {"save", "done"} /\ AllQuiet) =>
        /\ final_report.actions_taken = <<>>
        /\ final_report.action_results = <<>>
        /\ dispatched = <<>>
        /\ \E i \in DOMAIN event_log :
               event_log[i].event_type \notin RunEventTypes

\* C13 amended: a run in which no monitor reports drift assembles a report
\* with no actions and no results and dispatches nothing; the "no drift"
\* message goes to the logger only: the last event of the event log is the run's
\* drift_detection_complete event with drift_detected false, and nothing
\* is appended to the event log after it.
C13_NoDriftNoActions ==
    /\ []((pc \in {"save", "done"} /\ AllQuiet) =>
              /\ final_report.actions_taken = <<>>
              /\ final_report.action_results = <<>>
              /\ dispatched = <<>>
              /\ event_log # <<>>
              /\ LET e == event_log[Len(event_log)]
                 IN  /\ e.event_type = "drift_detection_complete"
                     /\ e.details.drift_detected.value = FALSE
                     /\ e.details.drift_score =
                            drift_report.overall_drift_score
              /\ final_report.events = event_log)
    /\ [][(AllQuiet /\ runs' = runs /\ Phase(pc) >= 2) =>
              event_log' = event_log]_vars

\* C13 witness: interactions, evaluations, tasks and embeddings in both
\* windows, none drifting; the run assembled its report with one event.
C13_Witness ==
    /\ pc = "save"
    /\ AllQuiet
    /\ "drift_detected" \in DOMAIN embedding_report
    /\ "drift_detected" \in DOMAIN behavior_report
    /\ final_report.actions_taken = <<>>
    /\ Len(final_report.events) = 1

\* the rows of interaction_log in the current window of a report
CurrentRows(report) ==
    RowsIn(interaction_log, Windows(report.timestamp).current_start,
           Windows(report.timestamp).current_end)

\* C14: with both windows non-empty, refusal_drift is true exactly when
\* refusals / interactions of the current window exceeds 0.10, and
\* toxicity_drift exactly when toxic / interactions of the current window
\* exceeds 0.05; nothing of the baseline window enters, so logs that differ
\* only in the baseline give the same flags.  A set refusal flag puts
\* fine_tune_model in the action list.
C14_AbsoluteThresholds ==
    /\ (behavior_report # None /\ ~NoVerdict(behavior_report)) =>
           LET rows == CurrentRows(behavior_report)
               n == Count(interaction_log, rows)
               refusals ==
                   Count(interaction_log, {r \in rows : r.refusal_flag})
               toxic ==
                   Count(interaction_log, {r \in rows : r.toxicity_flag})
           IN  /\ behavior_report.changes.refusal_drift_detected =
                      (refusals * 100 > 10 * n)
               /\ behavior_report.changes.toxicity_drift_detected =
                      (toxic * 100 > 5 * n)
    /\ (Decided /\ RefusalFlag(drift_report)) =>
           "fine_tune_model" \in Range(actions)

\* C14 witness: 25 of 50 baseline interactions were refusals and 2 of 20
\* current ones are (exactly 0.10), so the refusal flag is not set, while
\* 2 of 20 current ones are toxic and the toxicity flag is set.
C14_Witness ==
    /\ pc = "done"
    /\ ~NoVerdict(behavior_report)
    /\ behavior_report.baseline_period.metrics.refusal_rate = R(1, 2)
    /\ behavior_report.current_period.metrics.refusal_rate = R(1, 10)
    /\ behavior_report.current_period.metrics.toxicity_rate = R(1, 10)
    /\ ~behavior_report.changes.refusal_drift_detected
    /\ behavior_report.changes.toxicity_drift_detected
    /\ actions = <<"update_safety_filters">>

\* C15: when both windows hold evaluation records the accuracy flag is set
\* exactly when baseline average accuracy - current average accuracy >
\* 0.05, and when both hold task records the task flag is set exactly when
\* baseline success rate - current success rate > 0.05, a current average
\* or rate of 0 included.  The averages are the ones the queries returned:
\* for a window with records the report states None only for an average of
\* 0.  Differences and comparisons are those of doubles.
C15_AccuracyDriftExact ==
    accuracy_report # None =>
        LET w == Windows(accuracy_report.timestamp)
            eb == RowsIn(evaluation_log, w.baseline_start, w.baseline_end)
            ec == RowsIn(evaluation_log, w.current_start, w.current_end)
            nb == Count(evaluation_log, eb)
            nc == Count(evaluation_log, ec)
            ab == accuracy_report.baseline_period.evaluation_metrics.avg_accuracy
            ac == accuracy_report.current_period.evaluation_metrics.avg_accuracy
            tb == RowsIn(task_log.rows, w.baseline_start, w.baseline_end)
            tc == RowsIn(task_log.rows, w.current_start, w.current_end)
            mb == Count(task_log.rows, tb)
            mc == Count(task_log.rows, tc)
            okb == Count(task_log.rows, {r \in tb : r.success_flag})
            okc == Count(task_log.rows, {r \in tc : r.success_flag})
        IN  /\ (nb > 0 /\ nc > 0) =>
                   accuracy_report.changes.accuracy_drift_detected =
                       RGt(RSub(IF ab = None THEN Zero ELSE ab,
                                IF ac = None THEN Zero ELSE ac),
                           accuracy_threshold)
            /\ (task_log.exists /\ mb > 0 /\ mc > 0) =>
                   accuracy_report.changes.task_drift_detected =
                       RGt(RSub(R(okb, mb), R(okc, mc)), accuracy_threshold)

\* C16: a report file, once written, is never overwritten or modified by a
\* later run, and the file a run writes is named after its start time.
C16_ReportWriteOnce ==
    [][/\ \A f \in DOMAIN files :
              f \in DOMAIN files' /\ files'[f] = files[f]
       /\ files' # files =>
              /\ DOMAIN files' = DOMAIN files
                                 \cup {<<"drift_report", start_time[1]>>}
              /\ files'[<<"drift_report", start_time[1]>>] = final_report'
      ]_vars

\* a window length that is not positive
InvalidConfig == config.baseline_days <= 0 \/ config.current_days <= 0

\* C17: a pipeline with an invalid configuration invokes no monitor,
\* dispatches no action and writes no report.
C17_InvalidConfigRejected ==
    InvalidConfig =>
        /\ monitors_invoked = <<>>
        /\ embedding_report = None
        /\ behavior_report = None
        /\ accuracy_report = None
        /\ dispatched = <<>>
        /\ final_report = None
        /\ files = <<>>

\* the increments of counter c that were called and have not returned
InProgress(c) ==
    Cardinality({t \in Callers :
                     ~Idle(t) /\ Head(exporter.pending[t])[1] = c})

\* C18: under every interleaving of the exporter's callers, each counter
\* equals the number of increment calls made on it less those that have not
\* returned, so that n calls that have returned raised it by n, and never
\* decreases; each gauge holds its initial value or a value some
\* Gauge.set call on it was given, and the latter once such calls were made
\* and all have returned.
C18_NoLostUpdates ==
    /\ [](/\ metrics.retrain_events_total + InProgress("retrain_events_total")
                 = exporter.retrain_calls
          /\ metrics.reindex_events_total + InProgress("reindex_events_total")
                 = exporter.reindex_calls
          /\ \A g \in Gauges :
                 /\ metrics[g] = InitialMetrics[g]
                    \/ metrics[g] \in exporter.requested[g]
                 /\ ((\A t \in Callers : Idle(t))
                     /\ exporter.requested[g] # {}) =>
                        metrics[g] \in exporter.requested[g])
    /\ [][/\ metrics'.retrain_events_total >= metrics.retrain_events_total
          /\ metrics'.reindex_events_total >= metrics.reindex_events_total
         ]_vars

\* C18 witness: one increment of the retraining counter has returned, a
\* second one holds the lock and has read 1, a third thread waits for the
\* lock.
C18_Witness ==
    /\ exporter.retrain_calls = 3
    /\ metrics.retrain_events_total = 1
    /\ exporter.lock["retrain_events_total"] = 1
    /\ exporter.read[1] = <<1>>
    /\ exporter.pending[2] = <<<<"retrain_events_total", None>>>>
    /\ exporter.read[2] = None

\* the assignments of the three clock readings of a run to the monitors:
\* the orders in which the three calls can be made
CallOrders ==
    {o \in [Monitors -> 1..3] : \A m1, m2 \in Monitors : o[m1] = o[m2] => m1 = m2}

\* the combined reports the monitors give when they are called in the order
\* o at the clock readings the three calls of the current run took, for
\* every order in which the scans of the accuracy monitor read their rows
ReportsInOrder(o) ==
    LET readings == <<embedding_report.timestamp, behavior_report.timestamp,
                      accuracy_report.timestamp>>
        t == [m \in Monitors |-> readings[o[m]]]
    IN  {combined_report(drift_report.timestamp,
                         detect_drift(t["embedding"], "query"),
                         detect_behavior_drift(t["behavior"]),
                         detect_accuracy_drift(t["accuracy"], baseline_order,
                                               current_order)) :
             baseline_order \in
                 ScanOrders(Windows(t["accuracy"]).baseline_start,
                            Windows(t["accuracy"]).baseline_end),
             current_order \in
                 ScanOrders(Windows(t["accuracy"]).current_start,
                            Windows(t["accuracy"]).current_end)}

\* C19: the verdict and the score of the combined report of a run and the
\* action list decided from it are those the three monitors give in every
\* order of their calls on the same log contents, and a monitor call changes
\* nothing but its own report.
C19_OrderIndependent ==
    /\ [](Decided =>
             \A o \in CallOrders :
                 \E r \in ReportsInOrder(o) :
                     /\ r.overall_drift_detected.value
                            = drift_report.overall_drift_detected.value
                     /\ r.overall_drift_score = drift_report.overall_drift_score
                     /\ decide_actions(r) = actions)
    /\ [][monitors_invoked' # monitors_invoked /\ runs' = runs =>
              /\ db' = db
              /\ metrics' = metrics
              /\ event_log' = event_log
              /\ files' = files
              /\ embedding_report # None =>
                     embedding_report' = embedding_report
              /\ behavior_report # None =>
                     behavior_report' = behavior_report
              /\ accuracy_report # None =>
                     accuracy_report' = accuracy_report]_vars

\* the copies of the rows of a bag that lie in the baseline window or in
\* the current window of a monitor call made at time t, each copy once
CopiesBetween(table, t) ==
    LET cs == t - config.current_days
        bs == cs - config.baseline_days
    IN  Count(table, {r \in DOMAIN table :
                        \/ r.timestamp >= bs /\ r.timestamp < cs
                        \/ r.timestamp >= cs /\ r.timestamp < t})

\* the copies of the rows of a bag with timestamp = at
CopiesAt(table, at) == Count(table, {r \in DOMAIN table : r.timestamp = at})

\* the baseline and current record counts a behavior or embedding report
\* states
StatedCounts(r) ==
    IF "baseline_interactions" \in DOMAIN r
    THEN <<r.baseline_interactions, r.current_interactions>>
    ELSE IF "baseline_count" \in DOMAIN r
    THEN <<r.baseline_count, r.current_count>>
    ELSE IF "embedding_type" \in DOMAIN r
    THEN <<r.baseline_period.sample_count, r.current_period.sample_count>>
    ELSE <<r.baseline_period.metrics.total_interactions,
           r.current_period.metrics.total_interactions>>

\* the windows stated in a report are adjacent and of the configured
\* lengths, ending at the report's reading of the clock
AdjacentPeriods(r) ==
    "baseline_period" \in DOMAIN r =>
        /\ r.current_period.end = r.timestamp
        /\ r.current_period.start = r.timestamp - config.current_days
        /\ r.baseline_period.end = r.current_period.start
        /\ r.baseline_period.start =
               r.current_period.start - config.baseline_days

\* C20: in every monitor call baseline.end = current.start, the windows
\* have the configured lengths, and no record is counted in both: the two
\* counts add up to the records lying in either window, each taken once,
\* and a record on the boundary is counted in the current window.
C20_WindowsAdjacent ==
    /\ behavior_report # None =>
           LET t == behavior_report.timestamp
               c == StatedCounts(behavior_report)
           IN  /\ AdjacentPeriods(behavior_report)
               /\ c[1] + c[2] =
                      CopiesBetween(interaction_log, t)
               /\ config.current_days > 0 =>
                      c[2] >= CopiesAt(interaction_log,
                                       t - config.current_days)
    /\ embedding_report # None =>
           LET t == embedding_report.timestamp
               c == StatedCounts(embedding_report)
               q == [r \in {x \in DOMAIN embeddings_log : x.type = "query"}
                       |-> embeddings_log[r]]
           IN  /\ AdjacentPeriods(embedding_report)
               /\ c[1] + c[2] =
                      CopiesBetween(q, t)
               /\ config.current_days > 0 =>
                      c[2] >= CopiesAt(q, t - config.current_days)
    /\ accuracy_report # None =>
           LET t == accuracy_report.timestamp
               b == accuracy_report.baseline_period.evaluation_metrics
               c == accuracy_report.current_period.evaluation_metrics
           IN  /\ AdjacentPeriods(accuracy_report)
               /\ b.evaluation_count + c.evaluation_count =
                      CopiesBetween(evaluation_log, t)
               /\ config.current_days > 0 =>
                      c.evaluation_count >=
                          CopiesAt(evaluation_log, t - config.current_days)

\* C20 witness: three interactions lie on the boundary and are the whole
\* current window; they are counted there and not in the baseline.
C20_Witness ==
    /\ pc = "report"
    /\ behavior_report.timestamp = T0
    /\ embedding_report.timestamp = T0
    /\ accuracy_report.timestamp = T0
    /\ CopiesAt(interaction_log, TsBoundary) = 3
    /\ StatedCounts(behavior_report) = <<5, 3>>
    /\ StatedCounts(embedding_report) = <<4, 3>>
    /\ accuracy_report.current_period.evaluation_metrics.evaluation_count = 3
    /\ behavior_report.changes.refusal_drift_detected

\* C21: every entry of action_results in a run report has the status
\* "success" or "failed".
C21_StatusSuccessOrFailed ==
    final_report # None =>
        \A a \in DOMAIN final_report.action_results :
            final_report.action_results[a].status \in {"success", "failed"}

\* C22: a dispatcher invoked again with documents and logs unchanged has no
\* further effect: fine_tune starts no job when one was already started, and
\* reindex embeds pending documents only, never one already indexed.
C22_DispatchersIdempotent ==
    [][(pc = "execute" /\ dispatched' # dispatched) =>
           /\ (actions[idx] = "fine_tune_model" /\ finetune_jobs >= 1) =>
                  finetune_jobs' = finetune_jobs
           /\ (actions[idx] = "reindex_documents"
               /\ actions[idx] \notin dispatch_failed') =>
                  /\ docs_pending' <= docs_pending
                  /\ action_results'[actions[idx]].documents_processed =
                         docs_pending - docs_pending'
      ]_vars

\* the verdict of one method of an embedding report
MethodVerdict(r, method) ==
    Get(r.methods[method], "drift_detected", False).value

\* the methods of detect_drift
Methods ==
    {"centroid_distance", "variance_change", "cluster_analysis",
     "population_stability_index"}

\* C23: with both embedding windows non-empty, drift_detected of the
\* embedding report is the OR of the four method verdicts, a skipped cluster
\* analysis contributes false, and once the run has decided,
\* reindex_documents is in the action list exactly when drift_detected.
C23_EmbeddingVerdictIsOr ==
    (embedding_report # None /\ "methods" \in DOMAIN embedding_report) =>
        /\ embedding_report.drift_detected.value =
               (\E m \in Methods : MethodVerdict(embedding_report, m))
        /\ Get(embedding_report.methods.cluster_analysis, "reason", "")
               = "insufficient_samples" =>
               ~MethodVerdict(embedding_report, "cluster_analysis")
        /\ embedding_report.methods.population_stability_index.drift_detected.value
               = RGt(embedding_stats.psi, psi_threshold)
        /\ Decided =>
               (("reindex_documents" \in Range(actions))
                    = embedding_report.drift_detected.value)

\* C23 witness: PSI 0.25 alone, the cluster analysis skipped, the other two
\* methods below threshold: drift is reported and reindex_documents decided.
C23_Witness ==
    /\ pc = "save"
    /\ "methods" \in DOMAIN embedding_report
    /\ embedding_stats.psi = R(25, 100)
    /\ MethodVerdict(embedding_report, "population_stability_index")
    /\ ~MethodVerdict(embedding_report, "centroid_distance")
    /\ ~MethodVerdict(embedding_report, "variance_change")
    /\ embedding_report.methods.cluster_analysis.reason
           = "insufficient_samples"
    /\ embedding_report.drift_detected.value
    /\ final_report.actions_taken = <<"reindex_documents">>

\* C24: within a run the exporter's gauges and counters change only after
\* the decision has been made and every decided action has been dispatched,
\* and before the run report is assembled.
C24_MetricsAfterDispatch ==
    [][metrics' # metrics =>
           /\ Decided
           /\ Len(dispatched) = Len(actions)
           /\ final_report = None
      ]_vars

\* the monitor reports the current run has obtained so far
MonitorReports == {embedding_report, behavior_report, accuracy_report} \ {None}

\* C25: the monitors of one run evaluate the same two windows: their
\* reports end the current window at the same instant and state the same
\* start and end of both windows.
C25_SameWindows ==
    \A r1, r2 \in MonitorReports :
        /\ r1.timestamp = r2.timestamp
        /\ ("baseline_period" \in DOMAIN r1 /\ "baseline_period" \in DOMAIN r2)
               => /\ r1.baseline_period.start = r2.baseline_period.start
                  /\ r1.baseline_period.end = r2.baseline_period.end
                  /\ r1.current_period.start = r2.current_period.start
                  /\ r1.current_period.end = r2.current_period.end

\* decide_actions, lines 185-187: the message "No drift detected - no
\* actions needed" is logged exactly when the list it returns is empty
NoDriftLogged(decided) == decided = <<>>

\* C26: a run is reported as "no drift detected" only when its combined
\* report found no drift, and the run report states whether drift was found.
C26_NoDriftOnlyWithoutDrift ==
    /\ \A d \in decisions :
           NoDriftLogged(d[2]) => ~d[1].overall_drift_detected.value
    /\ final_report # None =>
           final_report.drift_report.overall_drift_detected.value
               = (\E r \in MonitorReports : Detected(r))

\* the event types a run with the given action list records, in order
EventsOfRun(acts) ==
    IF acts = <<>> THEN <<"drift_detection_complete">>
    ELSE <<"drift_detection_complete", "actions_executed">>

\* C27: the event list of a run report holds exactly the events of its own
\* run, in the order they occurred, and none of an earlier run.
C27_EventsOfThisRunOnly ==
    final_report # None =>
        [i \in DOMAIN final_report.events |->
             final_report.events[i].event_type]
            = EventsOfRun(final_report.actions_taken)

\* C28: whenever decide_actions returns a non-empty list, the combined
\* report it was given has overall_drift_detected true, and each action in
\* the list is backed by a monitor verdict of drift: reindex_documents by
\* the embedding monitor, update_safety_filters by the behavior monitor,
\* fine_tune_model by the behavior or the accuracy monitor.
C28_ActionsJustified ==
    \A d \in decisions :
        LET report == d[1]
            decided == Range(d[2])
        IN  /\ decided # {} => report.overall_drift_detected.value
            /\ decided \subseteq Actions
            /\ "reindex_documents" \in decided =>
                   Detected(report.embedding_drift)
            /\ "update_safety_filters" \in decided =>
                   Detected(report.behavior_drift)
            /\ "fine_tune_model" \in decided =>
                   \/ Detected(report.behavior_drift)
                   \/ Detected(report.accuracy_drift)

\* C28 witness: all three actions decided, fine_tune_model on the strength
\* of the behavior monitor alone.
C28_Witness ==
    /\ pc = "save"
    /\ actions = <<"reindex_documents", "fine_tune_model",
                   "update_safety_filters">>
    /\ <<drift_report, actions>> \in decisions
    /\ drift_report.overall_drift_detected.value
    /\ Detected(drift_report.embedding_drift)
    /\ Detected(drift_report.behavior_drift)
    /\ ~Detected(drift_report.accuracy_drift)

\* C29: in every run report the keys of action_results are exactly the
\* members of actions_taken, each with one recorded outcome carrying a
\* status, and action_results is empty when actions_taken is empty.
C29_ResultsMatchActions ==
    final_report # None =>
        /\ DOMAIN final_report.action_results
               = Range(final_report.actions_taken)
        /\ \A a \in DOMAIN final_report.action_results :
               "status" \in DOMAIN final_report.action_results[a]
        /\ final_report.actions_taken = <<>> =>
               final_report.action_results = <<>>
        /\ NoDuplicates(final_report.actions_taken)

\* C29 witness: three actions were decided, re-indexing failed and the
\* other two returned; the assembled report has one outcome for each.
C29_Witness ==
    /\ pc = "save"
    /\ Len(final_report.actions_taken) = 3
    /\ DOMAIN final_report.action_results = Actions
    /\ final_report.action_results["reindex_documents"].status = "failed"
    /\ final_report.action_results["fine_tune_model"].status = "initiated"
    /\ final_report.action_results["update_safety_filters"].status
           = "updated"

\* C30: no step of a pipeline run changes reindex_events_total; the only
\* counter that changes is retrain_events_total, by one at a time and by at
\* most one per run.
C30_ReindexCounterUntouched ==
    [][/\ metrics'.reindex_events_total = metrics.reindex_events_total
       /\ metrics'.retrain_events_total - metrics.retrain_events_total
              \in {0, 1}
       /\ metrics'.retrain_events_total <= runs'
      ]_vars

\* C30 witness: the second run has ended, it re-indexed successfully and
\* fine-tuned as the first did; the re-indexing counter is still 0, the
\* retraining counter is 2.
C30_Witness ==
    /\ RunEnded
    /\ runs = 2
    /\ "reindex_documents" \in DOMAIN action_results
    /\ action_results["reindex_documents"].status = "success"
    /\ "fine_tune_model" \in Range(actions)
    /\ metrics.reindex_events_total = 0
    /\ metrics.retrain_events_total = 2

====
